---- MODULE Spec2Model ----
(***************************************************************************)
(* Simulacra: the survival-run core.                                       *)
(*                                                                         *)
(* Quantities that are floats in the source are kept in fixed point:       *)
(* health, damage, entropy drain, heal amounts and mutation rate are in    *)
(* thousandths (100.0 HP = 100000); percentages (resistances, entropy      *)
(* reduction, HP modifiers) are whole percents.  Products are truncated    *)
(* to the unit after every multiplication.                                 *)
(***************************************************************************)
EXTENDS Integers, Sequences, FiniteSets, TLC

VARIABLES
    \* ---- SimulacraGame (main.py) ----
    pc,                 \* position of run(): "ready", "loop", "exited"
    is_running,
    game_over,
    survival_seconds,
    entropy_drain,
    regen_tick,
    disaster_count,
    recent_disasters,
    disaster,           \* locals of the last _trigger_disaster call
    \* ---- Player (core/player.py) ----
    health,
    speed,
    mutation_rate,
    resistances,
    immunities,
    active_traits,
    \* ---- TraitSystem (core/traits.py) ----
    active_effects,
    \* ---- DisasterSystem (core/disasters.py) ----
    last_occurrence,
    current_time,       \* argument of the last trigger_random_disaster call
    \* ---- MutationSystem (core/mutations.py) ----
    mutations,
    active_mutations,
    \* ---- run_simulacra (main.py) ----
    rs_pc,              \* "idle", "start", "loop", "rejected", "collapsed"
    loadout,
    stats,
    rs_survival_seconds,
    rs_recent_disasters,
    rs_mutations,
    \* ---- the parsers and resolvers of modules/traits.py called on their own ----
    effect_text,        \* the text given to a parser
    outcome,            \* what the call returned, or that it raised
    \* ---- several SimulacraGame objects driven by one host ----
    games,              \* the fields of each game and of its player
    disaster_systems,   \* last_occurrence of each DisasterSystem object
    mutation_systems,   \* the MutationSystem objects the host constructed
    driven,             \* the game whose method the host called last
    \* ---- bookkeeping ----
    op,                 \* name of the operation executed last
    calls               \* number of API calls made by the host so far

gameVars == <<pc, is_running, game_over, survival_seconds, entropy_drain,
              regen_tick, disaster_count, recent_disasters, disaster>>
playerVars == <<health, speed, mutation_rate, resistances, immunities,
                active_traits>>
traitVars == <<active_effects>>
disasterVars == <<last_occurrence, current_time>>
mutationVars == <<mutations, active_mutations>>
rsVars == <<rs_pc, loadout, stats, rs_survival_seconds, rs_recent_disasters,
            rs_mutations>>
parserVars == <<effect_text, outcome>>
gamesVars == <<games, disaster_systems, mutation_systems, driven>>
objectVars == <<gameVars, playerVars, traitVars, disasterVars, mutationVars>>

----------------------------------------------------------------------------
\* Bounds of the model (not program constants)

MaxHostCalls == 3
MaxTime == 42
MaxTriggers == 2
MaxCount == 3
MaxLoadout == 2
MaxMutations == 2
MaxMutationTime == 2
MaxSeconds == 90
MaxHp == 150000
MaxFired == 7
MaxGameSeconds == 8
MaxGameTriggers == 1
MaxEffectCalls == 5
MaxSelectorCalls == 5

----------------------------------------------------------------------------
\* Program constants (core/constants.py, main.py, core/player.py)

BASE_HP == 100000
BASE_ENTROPY_DRAIN == 1200
MAX_ENTROPY_DRAIN == 5000
ENTROPY_ACCELERATION == 8
BASE_REGEN_AMOUNT == 1500
MAX_MUTATION_RATE == 100000
RESISTANCE_CAP == 50
MAX_RECENT_DISASTERS == 5
REGEN_INTERVAL == 8
grace_period == 3
max_health == 100000
base_speed == 1000
DefaultMaxResistance == 75
NoOccurrence == -999
RS_BASE_HP == 100000
DISASTER_INTERVAL == 15

Min2(a, b) == IF a <= b THEN a ELSE b
Max2(a, b) == IF a >= b THEN a ELSE b

----------------------------------------------------------------------------
\* Disaster catalog (DisasterSystem._initialize_disasters)

Disasters ==
    [radiation_burst |-> [type |-> "radiation", damage |-> 20000,
                          mutation_chance |-> 25, cooldown |-> 35],
     acid_rain       |-> [type |-> "chemical", damage |-> 8000,
                          mutation_chance |-> 15, cooldown |-> 25],
     psychic_wave    |-> [type |-> "psychic", damage |-> 15000,
                          mutation_chance |-> 35, cooldown |-> 40],
     toxic_cloud     |-> [type |-> "chemical", damage |-> 12000,
                          mutation_chance |-> 15, cooldown |-> 40]]

DisasterIds == DOMAIN Disasters

NoDisaster == [id |-> "none", scaled |-> 0, final |-> 0, prev |-> NoOccurrence]

\* Disaster.get_scaled_damage
get_scaled_damage_NoCount(d, time, count) ==
    LET early == Max2(0, 30 - time) * 2
        a == (Disasters[d].damage * (100 + early)) \div 100
    IN  (a * (180 + time)) \div 180
get_scaled_damage(d, time, count) ==
    LET early == Max2(0, 30 - time) * 2            \* percent
        a == (Disasters[d].damage * (100 + early)) \div 100
        b == (a * (180 + time)) \div 180
    IN  (b * (100 + 15 * count)) \div 100

\* last_occurrence.get(d.id, -999)
LastOccurrenceOf(lo, d) == IF d \in DOMAIN lo THEN lo[d] ELSE NoOccurrence

\* the cooldown comparison taken one second early
available_disasters_OneEarly(lo, t) ==
    {d \in DisasterIds : t - LastOccurrenceOf(lo, d) >= Disasters[d].cooldown - 1}

\* the list comprehension of trigger_random_disaster
available_disasters(lo, t) ==
    {d \in DisasterIds : t - LastOccurrenceOf(lo, d) >= Disasters[d].cooldown}

\* last_occurrence[disaster.id] = current_time
RecordOccurrence_All(lo, d, t) == [x \in (DOMAIN lo) \cup {d} |-> t]
RecordOccurrence(lo, d, t) ==
    [x \in (DOMAIN lo) \cup {d} |-> IF x = d THEN t ELSE lo[x]]

----------------------------------------------------------------------------
\* Player

\* modify_health without the upper bound
modify_health_NoCap(h, amount) == Max2(0, h + amount)

\* Player.modify_health
modify_health(h, amount) == Max2(0, Min2(max_health, h + amount))

\* Player.modify_mutation_rate
modify_mutation_rate(r, amount) == Max2(0, Min2(MAX_MUTATION_RATE, r + amount))

\* Player.modify_resistance
modify_resistance(res, damage_type, amount) ==
    LET current == IF damage_type \in DOMAIN res THEN res[damage_type] ELSE 0
        new == Min2(DefaultMaxResistance, current + amount)
    IN  [x \in (DOMAIN res) \cup {damage_type} |->
            IF x = damage_type THEN new ELSE res[x]]

----------------------------------------------------------------------------
\* SimulacraGame helpers

\* _calculate_disaster_damage with the stored resistance used as it is
calculate_disaster_damage_NoCap(res, type, base_damage) ==
    LET reduced == IF type \in DOMAIN res
                   THEN (base_damage * (100 - res[type])) \div 100
                   ELSE base_damage
    IN  Max2(reduced \div 5, reduced)

\* SimulacraGame._calculate_disaster_damage
calculate_disaster_damage(res, type, base_damage) ==
    LET reduced == IF type \in DOMAIN res
                   THEN (base_damage * (100 - Min2(RESISTANCE_CAP, res[type]))) \div 100
                   ELSE base_damage
    IN  Max2(reduced \div 5, reduced)

\* round(damage, 1) in _update_disaster_history
Round1(x) == ((x + 50) \div 100) * 100

\* _update_disaster_history evicting the newest entry instead of the oldest
update_disaster_history_KeepOldest(hist, d, damage, time) ==
    LET appended == Append(hist, [name |-> d, type |-> Disasters[d].type,
                                  damage |-> Round1(damage), time |-> time])
    IN  IF Len(appended) > MAX_RECENT_DISASTERS
        THEN SubSeq(appended, 1, MAX_RECENT_DISASTERS)
        ELSE appended

\* SimulacraGame._update_disaster_history
update_disaster_history(hist, d, damage, time) ==
    LET appended == Append(hist, [name |-> d, type |-> Disasters[d].type,
                                  damage |-> Round1(damage), time |-> time])
    IN  IF Len(appended) > MAX_RECENT_DISASTERS
        THEN SubSeq(appended, Len(appended) - MAX_RECENT_DISASTERS + 1, Len(appended))
        ELSE appended

\* the entropy step of run(): health after the drain of second s
EntropyDrainAt_NoCap(s) ==
    BASE_ENTROPY_DRAIN + (s - grace_period) * ENTROPY_ACCELERATION
EntropyDrainAt(s) ==
    Min2(MAX_ENTROPY_DRAIN, BASE_ENTROPY_DRAIN + (s - grace_period) * ENTROPY_ACCELERATION)

HealthAfterEntropy_NoGrace(h, s) == Max2(0, h - EntropyDrainAt(s))
HealthAfterEntropy(h, s) ==
    IF s > grace_period THEN Max2(0, h - EntropyDrainAt(s)) ELSE h

\* MutationSystem.get_mutation_list: the ids whose mutations it returns; the
\* lookup self.mutations[mid] raises KeyError when an active id is not stored
get_mutation_list(muts, act) == act
MutationLookupFails(muts, act) == ~(act \subseteq DOMAIN muts)

\* heal_amount = mutation.power * BASE_REGEN_AMOUNT
heal_amount(power) == (power * BASE_REGEN_AMOUNT) \div 1000

\* the body of `if self.regen_tick >= self.REGEN_INTERVAL` in _handle_mutations
HealthAfterRegen(h, muts, act) ==
    IF "regen" \in get_mutation_list(muts, act)
    THEN modify_health(h, heal_amount(muts["regen"].power))
    ELSE h

----------------------------------------------------------------------------
\* TraitSystem: the registered traits (TraitData, as in tests/unit/test_traits.py).
\* An effect is [type, value, name, fire, duration, remaining]; duration 0
\* stands for None, fire says whether 'fire' occurs in the effect's text.

Effect(type, value, name, fire, duration) ==
    [type |-> type, value |-> value, name |-> name, fire |-> fire,
     duration |-> duration, remaining |-> duration]

\* value is the number of an hp, speed or resistance effect; for an immunity
\* effect the source's value is a string, kept in name
TraitCatalog ==
    [tough      |-> <<Effect("hp", 10000, "", FALSE, 0)>>,
     surge      |-> <<Effect("hp", 10000, "", FALSE, 1)>>,
     sprint     |-> <<Effect("speed", 2000, "", FALSE, 3)>>,
     fireproof  |-> <<Effect("resistance", 60, "", TRUE, 0)>>,
     rad_immune |-> <<Effect("immunity", 0, "radiation", FALSE, 0)>>]

TraitIds == DOMAIN TraitCatalog

\* TraitSystem.get_trait: the ids for which it returns a trait
get_trait(trait_id) == trait_id \in TraitIds

\* the key a resistance effect is stored under (TraitSystem._apply_effect)
ResistanceKey(effect) == IF effect.fire THEN "fire" ELSE ToString(effect.value)

\* TraitSystem._apply_effect on the player fields p = [health, speed, resistances, immunities]
apply_effect(effect, p) ==
    CASE effect.type = "hp" ->
            [p EXCEPT !.health = p.health + effect.value]
      [] effect.type = "immunity" ->
            [p EXCEPT !.immunities = p.immunities \cup {effect.name}]
      [] effect.type = "resistance" ->
            LET k == ResistanceKey(effect)
                cur == IF k \in DOMAIN p.resistances THEN p.resistances[k] ELSE 0
            IN  [p EXCEPT !.resistances =
                    [x \in (DOMAIN p.resistances) \cup {k} |->
                        IF x = k THEN cur + effect.value ELSE p.resistances[x]]]
      [] effect.type = "speed" ->
            [p EXCEPT !.speed = effect.value]
      [] OTHER -> p

\* TraitSystem._remove_effect
remove_effect(effect, p) ==
    CASE effect.type = "speed" -> [p EXCEPT !.speed = base_speed]
      [] effect.type = "hp" -> [p EXCEPT !.health = p.health - effect.value]
      [] OTHER -> p

RECURSIVE ApplyEffects(_, _, _)
\* the loop of apply_trait_effects over trait['effects'], from index i
ApplyEffects(effects, i, p) ==
    IF i > Len(effects) THEN p
    ELSE ApplyEffects(effects, i + 1, apply_effect(effects[i], p))

\* the effects of a trait that get tracked (effect.get('duration') is truthy)
TrackedEffects(effects) == SelectSeq(effects, LAMBDA e : e.duration # 0)

RECURSIVE UpdateList(_, _, _, _)
\* the inner loop of update_effects over one trait's list: returns
\* [effects |-> the list afterwards, p |-> the player fields afterwards]
UpdateList(effects, i, kept, p) ==
    IF i > Len(effects) THEN [effects |-> kept, p |-> p]
    ELSE LET e == effects[i]
             dec == [e EXCEPT !.remaining = e.remaining - 1]
         IN  IF e.duration # 0
             THEN IF dec.remaining <= 0
                  THEN UpdateList(effects, i + 1, kept, remove_effect(dec, p))
                  ELSE UpdateList(effects, i + 1, Append(kept, dec), p)
             ELSE UpdateList(effects, i + 1, Append(kept, e), p)

RECURSIVE UpdateAll(_, _, _)
\* the outer loop of update_effects over the tracked traits (ids: those left)
UpdateAll(ids, ae, p) ==
    IF ids = {} THEN [ae |-> ae, p |-> p]
    ELSE LET t == CHOOSE x \in ids : TRUE
             r == UpdateList(ae[t], 1, <<>>, p)
         IN  UpdateAll(ids \ {t}, [ae EXCEPT ![t] = r.effects], r.p)

PlayerFields == [health |-> health, speed |-> speed,
                 resistances |-> resistances, immunities |-> immunities]

EmptyMap == [x \in {} |-> 0]

\* the stats dictionary before calculate_initial_stats has built it
NoStats == [current_hp |-> 0, max_hp |-> 0, mutation_rate |-> 0,
            resistances |-> EmptyMap, immunities |-> {}, entropy_reduction |-> 0]

\* MutationSystem.__init__ followed by SimulacraGame._add_test_mutations, which
\* stores the four starter mutations again with the default power 1.0
InitialMutations ==
    [regen      |-> [power |-> 1000, active |-> TRUE],
     thick_skin |-> [power |-> 1000, active |-> TRUE],
     adaptive   |-> [power |-> 1000, active |-> TRUE],
     unstable   |-> [power |-> 1000, active |-> TRUE]]

\* random.uniform(1.0, 3.0): the two ends of the interval
MutationGains == {1000, 3000}

----------------------------------------------------------------------------
\* SimulacraGame: state after SimulacraGame(trait_system, mutation_system)

InitGame ==
    /\ pc = "ready"
    /\ is_running = FALSE
    /\ game_over = FALSE
    /\ survival_seconds = 0
    /\ entropy_drain = 0
    /\ regen_tick = 0
    /\ disaster_count = 0
    /\ recent_disasters = <<>>
    /\ disaster = NoDisaster

\* Player(id, name, PlayerConfig()) and self.player.health = BASE_HP
InitPlayer ==
    /\ health = BASE_HP
    /\ speed = base_speed
    /\ mutation_rate = 0
    /\ resistances = EmptyMap
    /\ immunities = {}
    /\ active_traits = {}

\* TraitSystem(), DisasterSystem(), MutationSystem() and _add_test_mutations
InitSystems ==
    /\ active_effects = EmptyMap
    /\ last_occurrence = EmptyMap
    /\ current_time = 0
    /\ mutations = InitialMutations
    /\ active_mutations = DOMAIN InitialMutations

\* the result of a parser or resolver call: the effect's type, its number
\* (value), its string (word), its damage_type, and whether the call raised
NoOutcome == [type |-> "none", value |-> 0, word |-> <<>>, damage_type |-> <<>>,
              raised |-> FALSE]

\* no parser has been called
InitParser ==
    /\ effect_text = <<>>
    /\ outcome = NoOutcome

\* the host has constructed no further game
InitOneGame ==
    /\ games = <<>>
    /\ disaster_systems = <<>>
    /\ mutation_systems = <<>>
    /\ driven = 0

\* run_simulacra has not been called
InitIdle ==
    /\ rs_pc = "idle"
    /\ loadout = <<>>
    /\ stats = NoStats
    /\ rs_survival_seconds = 0
    /\ rs_recent_disasters = <<>>
    /\ rs_mutations = <<>>

Init ==
    /\ InitGame
    /\ InitPlayer
    /\ InitSystems
    /\ InitIdle
    /\ InitParser
    /\ InitOneGame
    /\ op = "init"
    /\ calls = 0

\* run() up to the loop: self.is_running = True.  run() can be called again
\* once it has returned; the calls after the first count as host calls.
StartRun ==
    /\ \/ pc = "ready" /\ UNCHANGED calls
       \/ pc = "exited" /\ calls < MaxHostCalls /\ calls' = calls + 1
    /\ is_running' = TRUE
    /\ pc' = "loop"
    /\ op' = "run"
    /\ UNCHANGED <<game_over, survival_seconds, entropy_drain, regen_tick,
                   disaster_count, recent_disasters, disaster>>
    /\ UNCHANGED <<playerVars, traitVars, disasterVars, mutationVars, rsVars, parserVars, gamesVars>>

\* the loop body after the game-over check: survival_seconds += 1, the entropy
\* step and _handle_mutations (regen_tick += 1, regen heal every REGEN_INTERVAL)
Tick ==
    LET s == survival_seconds + 1
        h1 == HealthAfterEntropy(health, s)
        rt == regen_tick + 1
    IN  /\ survival_seconds' = s
        /\ entropy_drain' = IF s > grace_period THEN EntropyDrainAt(s) ELSE entropy_drain
        /\ op' = "tick"
        /\ IF rt >= REGEN_INTERVAL
           THEN IF MutationLookupFails(mutations, active_mutations)
                THEN \* KeyError: caught by `except Exception`, the loop ends
                     /\ health' = h1
                     /\ regen_tick' = rt
                     /\ is_running' = FALSE
                     /\ pc' = "exited"
                ELSE /\ health' = HealthAfterRegen(h1, mutations, active_mutations)
                     /\ regen_tick' = 0
                     /\ UNCHANGED <<is_running, pc>>
           ELSE /\ health' = h1
                /\ regen_tick' = rt
                /\ UNCHANGED <<is_running, pc>>
        /\ UNCHANGED game_over

\* the loop's first statement when health <= 0: self.game_over = True; break
GameOverExit ==
    /\ game_over' = TRUE
    /\ pc' = "exited"
    /\ op' = "game_over"
    /\ UNCHANGED <<is_running, survival_seconds, entropy_drain, regen_tick, health>>

\* one iteration of `while self.is_running` in run()
RunIteration ==
    /\ pc = "loop"
    /\ is_running
    /\ IF health <= 0 THEN GameOverExit ELSE Tick
    /\ UNCHANGED <<disaster_count, recent_disasters, disaster, calls>>
    /\ UNCHANGED <<speed, mutation_rate, resistances, immunities, active_traits>>
    /\ UNCHANGED <<traitVars, disasterVars, mutationVars, rsVars, parserVars, gamesVars>>

\* run() blocks its caller (one thread, time.sleep inside the loop): the host
\* calls the objects' methods before run() or after it has returned
HostMayCall == pc \in {"ready", "exited"} /\ calls < MaxHostCalls

\* DisasterSystem.trigger_random_disaster(t) returning d ("none" for None)
trigger_random_disaster(t, d) ==
    /\ current_time' = t
    /\ IF available_disasters(last_occurrence, t) = {}
       THEN /\ d = "none"
            /\ UNCHANGED last_occurrence
       ELSE /\ d \in available_disasters(last_occurrence, t)
            /\ last_occurrence' = RecordOccurrence(last_occurrence, d, t)

\* _trigger_disaster when no disaster is returned
TriggerDisasterNone ==
    /\ disaster' = NoDisaster
    /\ UNCHANGED <<health, recent_disasters, mutation_rate, disaster_count>>

\* _trigger_disaster when d is returned: get_scaled_damage,
\* _calculate_disaster_damage, _handle_damage, _update_disaster_history and
\* _handle_mutation_chance (mutates: the roll succeeds; gain: the uniform draw)
TriggerDisasterFires_CountFirst(d, mutates, gain) ==
    LET scaled == get_scaled_damage(d, survival_seconds, disaster_count + 1)
        final == calculate_disaster_damage(resistances, Disasters[d].type, scaled)
    IN  /\ disaster' = [id |-> d, scaled |-> scaled, final |-> final,
                        prev |-> LastOccurrenceOf(last_occurrence, d)]
        /\ health' = Max2(0, health - final)
        /\ recent_disasters' =
               update_disaster_history(recent_disasters, d, final, survival_seconds)
        /\ mutation_rate' = IF mutates
                            THEN Min2(MAX_MUTATION_RATE, mutation_rate + gain)
                            ELSE mutation_rate
        /\ disaster_count' = disaster_count + 1
TriggerDisasterFires(d, mutates, gain) ==
    LET scaled == get_scaled_damage(d, survival_seconds, disaster_count)
        final == calculate_disaster_damage(resistances, Disasters[d].type, scaled)
    IN  /\ disaster' = [id |-> d, scaled |-> scaled, final |-> final,
                        prev |-> LastOccurrenceOf(last_occurrence, d)]
        /\ health' = Max2(0, health - final)
        /\ recent_disasters' =
               update_disaster_history(recent_disasters, d, final, survival_seconds)
        /\ mutation_rate' = IF mutates
                            THEN Min2(MAX_MUTATION_RATE, mutation_rate + gain)
                            ELSE mutation_rate
        /\ disaster_count' = disaster_count + 1

\* SimulacraGame._trigger_disaster
TriggerDisaster ==
    /\ HostMayCall
    /\ calls' = calls + 1
    /\ op' = "trigger_disaster"
    /\ \E d \in DisasterIds \cup {"none"}, mutates \in BOOLEAN, gain \in MutationGains :
          /\ (d = "none" => ~mutates)
          /\ (~mutates => gain = 1000)
          /\ trigger_random_disaster(survival_seconds, d)
          /\ IF d = "none" THEN TriggerDisasterNone
                           ELSE TriggerDisasterFires(d, mutates, gain)
    /\ UNCHANGED <<pc, is_running, game_over, survival_seconds, entropy_drain, regen_tick>>
    /\ UNCHANGED <<speed, resistances, immunities, active_traits>>
    /\ UNCHANGED <<traitVars, mutationVars, rsVars, parserVars, gamesVars>>

\* TraitSystem.apply_trait_effects(trait_id, player)
ApplyTraitBody(trait_id) ==
    /\ IF ~get_trait(trait_id)
       THEN UNCHANGED <<playerVars, traitVars>>
       ELSE LET effects == TraitCatalog[trait_id]
                p == ApplyEffects(effects, 1, PlayerFields)
                tracked == TrackedEffects(effects)
                old == IF trait_id \in DOMAIN active_effects
                       THEN active_effects[trait_id] ELSE <<>>
            IN  /\ active_traits' = active_traits \cup {trait_id}
                /\ health' = p.health
                /\ speed' = p.speed
                /\ resistances' = p.resistances
                /\ immunities' = p.immunities
                /\ active_effects' =
                      IF tracked = <<>> THEN active_effects
                      ELSE [x \in (DOMAIN active_effects) \cup {trait_id} |->
                              IF x = trait_id THEN old \o tracked ELSE active_effects[x]]
                /\ UNCHANGED mutation_rate
    /\ UNCHANGED <<gameVars, disasterVars>>

\* the host applies a trait to the player of the game
ApplyTrait(trait_id) ==
    /\ HostMayCall
    /\ calls' = calls + 1
    /\ op' = "apply_trait"
    /\ ApplyTraitBody(trait_id)
    /\ UNCHANGED <<mutationVars, rsVars, parserVars, gamesVars>>

\* TraitSystem.update_effects(player)
UpdateEffectsBody ==
    /\ LET r == UpdateAll(DOMAIN active_effects, active_effects, PlayerFields)
       IN  /\ active_effects' = r.ae
           /\ health' = r.p.health
           /\ speed' = r.p.speed
           /\ resistances' = r.p.resistances
           /\ immunities' = r.p.immunities
    /\ UNCHANGED <<mutation_rate, active_traits>>
    /\ UNCHANGED <<gameVars, disasterVars>>

\* the host updates the effects on the player of the game
UpdateEffects ==
    /\ HostMayCall
    /\ calls' = calls + 1
    /\ op' = "update_effects"
    /\ UpdateEffectsBody
    /\ UNCHANGED <<mutationVars, rsVars, parserVars, gamesVars>>

HostTraitIds == TraitIds \cup {"nonexistent"}

\* Player.modify_resistance(damage_type, amount), called by the host
ModifyResistance(damage_type, amount) ==
    /\ HostMayCall
    /\ calls' = calls + 1
    /\ op' = "modify_resistance"
    /\ resistances' = modify_resistance(resistances, damage_type, amount)
    /\ UNCHANGED <<health, speed, mutation_rate, immunities, active_traits>>
    /\ UNCHANGED <<gameVars, traitVars, disasterVars, mutationVars, rsVars, parserVars, gamesVars>>

\* Player.modify_mutation_rate(amount), called by the host
ModifyMutationRate(amount) ==
    /\ HostMayCall
    /\ calls' = calls + 1
    /\ op' = "modify_mutation_rate"
    /\ mutation_rate' = modify_mutation_rate(mutation_rate, amount)
    /\ UNCHANGED <<health, speed, resistances, immunities, active_traits>>
    /\ UNCHANGED <<gameVars, traitVars, disasterVars, mutationVars, rsVars, parserVars, gamesVars>>

\* the arguments the host passes
HostDamageTypes == {"radiation", "fire"}
HostResistanceAmounts == {60}
HostMutationAmounts == {60000, -30000}

Next ==
    \/ StartRun
    \/ RunIteration
    \/ TriggerDisaster
    \/ \E t \in HostTraitIds : ApplyTrait(t)
    \/ UpdateEffects
    \/ \E t \in HostDamageTypes, a \in HostResistanceAmounts : ModifyResistance(t, a)
    \/ \E a \in HostMutationAmounts : ModifyMutationRate(a)

vars == <<gameVars, playerVars, traitVars, disasterVars, mutationVars, rsVars,
          parserVars, gamesVars, op, calls>>

Spec == Init /\ [][Next]_vars

----------------------------------------------------------------------------
\* DisasterSystem on its own: trigger_random_disaster called with
\* non-decreasing times

TriggerCallBody(t, d) ==
    /\ calls' = calls + 1
    /\ op' = "trigger_random_disaster"
    /\ trigger_random_disaster(t, d)
    /\ disaster' = IF d = "none" THEN NoDisaster
                   ELSE [id |-> d, scaled |-> 0, final |-> 0,
                         prev |-> LastOccurrenceOf(last_occurrence, d)]
    /\ UNCHANGED <<pc, is_running, game_over, survival_seconds, entropy_drain,
                   regen_tick, disaster_count, recent_disasters>>
    /\ UNCHANGED <<playerVars, traitVars, mutationVars, rsVars, parserVars, gamesVars>>

TriggerCall(t, d) == calls < MaxTriggers /\ TriggerCallBody(t, d)

NextDisaster ==
    \E t \in current_time..MaxTime, d \in DisasterIds \cup {"none"} : TriggerCall(t, d)

SpecDisaster == Init /\ [][NextDisaster]_vars

----------------------------------------------------------------------------
\* The damage computation of _trigger_disaster as a function of its inputs:
\* the disaster, the time, the disaster count and the stored resistance

\* the resistance values a player may have stored for a damage type
StoredResistances == {-20, 0, 10, 50, 51, 75, 90, 100, 150}

DamageTypes == {Disasters[d].type : d \in DisasterIds}

InitDamage ==
    /\ pc = "ready"
    /\ is_running = FALSE
    /\ game_over = FALSE
    /\ survival_seconds \in 0..MaxTime
    /\ entropy_drain = 0
    /\ regen_tick = 0
    /\ disaster_count \in 0..MaxCount
    /\ recent_disasters = <<>>
    /\ disaster = NoDisaster
    /\ health = BASE_HP
    /\ speed = base_speed
    /\ mutation_rate = 0
    /\ resistances \in {EmptyMap} \cup
                       {[k \in {type} |-> r] : type \in DamageTypes, r \in StoredResistances}
    /\ immunities = {}
    /\ active_traits = {}
    /\ InitSystems
    /\ InitIdle
    /\ InitParser
    /\ InitOneGame
    /\ op = "init"
    /\ calls = 0

\* scaled_damage = disaster.get_scaled_damage(...);
\* final_damage = self._calculate_disaster_damage(disaster, scaled_damage)
CalculateDamage(d) ==
    /\ op = "init"
    /\ op' = "calculate_disaster_damage"
    /\ LET scaled == get_scaled_damage(d, survival_seconds, disaster_count)
       IN  disaster' = [id |-> d, scaled |-> scaled,
                        final |-> calculate_disaster_damage(resistances,
                                                            Disasters[d].type, scaled),
                        prev |-> NoOccurrence]
    /\ UNCHANGED <<pc, is_running, game_over, survival_seconds, entropy_drain,
                   regen_tick, disaster_count, recent_disasters, calls>>
    /\ UNCHANGED <<playerVars, traitVars, disasterVars, mutationVars, rsVars, parserVars, gamesVars>>

NextDamage == \E d \in DisasterIds : CalculateDamage(d)

SpecDamage == InitDamage /\ [][NextDamage]_vars

----------------------------------------------------------------------------
\* Effect texts (modules/traits.py).  A text is a sequence of one-character
\* strings, so that str.lower, the `in` tests and the regular expressions of
\* the resolver are computed on the characters.

UpperToLower ==
    [A |-> "a", B |-> "b", C |-> "c", D |-> "d", E |-> "e", F |-> "f", G |-> "g",
     H |-> "h", I |-> "i", J |-> "j", K |-> "k", L |-> "l", M |-> "m", N |-> "n",
     O |-> "o", P |-> "p", Q |-> "q", R |-> "r", S |-> "s", T |-> "t", U |-> "u",
     V |-> "v", W |-> "w", X |-> "x", Y |-> "y", Z |-> "z"]

LowerLetters == {UpperToLower[c] : c \in DOMAIN UpperToLower}

DigitChars == <<"0", "1", "2", "3", "4", "5", "6", "7", "8", "9">>

IsDigit(c) == \E i \in 1..10 : DigitChars[i] = c
DigitValue(c) == (CHOOSE i \in 1..10 : DigitChars[i] = c) - 1
\* \s on a one-line text
IsSpace(c) == c \in {" ", "\t"}
\* \w on a lower-cased text
IsWordChar(c) == c \in LowerLetters \/ IsDigit(c) \/ c = "_"

\* str.lower()
LowerChar(c) == IF c \in DOMAIN UpperToLower THEN UpperToLower[c] ELSE c
Lower(t) == [i \in 1..Len(t) |-> LowerChar(t[i])]

\* t[i:].startswith(pat)
StartsWithAt(t, i, pat) ==
    /\ i >= 1
    /\ i + Len(pat) - 1 <= Len(t)
    /\ \A k \in 1..Len(pat) : t[i + k - 1] = pat[k]

\* pat in t
Contains(t, pat) == \E i \in 1..(Len(t) + 1) : StartsWithAt(t, i, pat)

RECURSIVE SkipSpaces(_, _)
\* the index after the longest run of whitespace starting at i  (\s*)
SkipSpaces(t, i) == IF i <= Len(t) /\ IsSpace(t[i]) THEN SkipSpaces(t, i + 1) ELSE i

RECURSIVE DigitsEnd(_, _)
\* the index after the longest run of digits starting at i  (\d+, greedy)
DigitsEnd(t, i) == IF i <= Len(t) /\ IsDigit(t[i]) THEN DigitsEnd(t, i + 1) ELSE i

RECURSIVE WordEnd(_, _)
\* the index after the longest run of word characters starting at i  (\w+)
WordEnd(t, i) == IF i <= Len(t) /\ IsWordChar(t[i]) THEN WordEnd(t, i + 1) ELSE i

RECURSIVE ParseDigits(_, _, _, _)
\* the number written by the digits t[i..j-1]
ParseDigits(t, i, j, acc) ==
    IF i >= j THEN acc ELSE ParseDigits(t, i + 1, j, acc * 10 + DigitValue(t[i]))

NoMatch == [found |-> FALSE, value |-> 0, word |-> <<>>]

\* the least element of a non-empty set of positions: re.search returns the
\* leftmost match
Leftmost(S) == CHOOSE x \in S : \A y \in S : x <= y

\* the number written by the run of digits starting at i
NumberAt(t, i) == ParseDigits(t, i, DigitsEnd(t, i), 0)

\* a match of  (\d+)%\s*<word>  starting at i
PercentWordAt(t, i, word) ==
    /\ i <= Len(t)
    /\ IsDigit(t[i])
    /\ DigitsEnd(t, i) <= Len(t)
    /\ t[DigitsEnd(t, i)] = "%"
    /\ StartsWithAt(t, SkipSpaces(t, DigitsEnd(t, i) + 1), word)

\* the index after the <word> of a match of  (\d+)%\s*<word>  starting at i
AfterWord(t, i, word) == SkipSpaces(t, DigitsEnd(t, i) + 1) + Len(word)

\* the positions where  ([+-]\d+)%\s*hp  matches
HpStarts(t) ==
    {i \in 1..Len(t) : t[i] \in {"+", "-"} /\ PercentWordAt(t, i + 1, <<"h", "p">>)}

\* re.search(r'([+-]\d+)%\s*hp', t)
MatchHp(t) ==
    IF HpStarts(t) = {} THEN NoMatch
    ELSE [found |-> TRUE,
          value |-> IF t[Leftmost(HpStarts(t))] = "-"
                    THEN 0 - NumberAt(t, Leftmost(HpStarts(t)) + 1)
                    ELSE NumberAt(t, Leftmost(HpStarts(t)) + 1),
          word |-> <<>>]

\* the positions where  (\d+)%\s*<word>.*<tail>  matches
PercentWordStarts(t, word, tail) ==
    {i \in 1..Len(t) :
        /\ PercentWordAt(t, i, word)
        /\ \E j \in AfterWord(t, i, word)..(Len(t) + 1) : StartsWithAt(t, j, tail)}

\* re.search(r'(\d+)%\s*<word>.*<tail>', t)
MatchPercentWord(t, word, tail) ==
    IF PercentWordStarts(t, word, tail) = {} THEN NoMatch
    ELSE [found |-> TRUE,
          value |-> NumberAt(t, Leftmost(PercentWordStarts(t, word, tail))),
          word |-> <<>>]

S_hp == <<"h", "p">>
S_entropy == <<"e", "n", "t", "r", "o", "p", "y">>
S_reduction == <<"r", "e", "d", "u", "c", "t", "i", "o", "n">>
S_resist_fire == <<"c", "h", "a", "n", "c", "e", " ", "t", "o", " ", "r", "e", "s", "i", "s", "t", " ", "f", "i", "r", "e">>
S_chance == <<"c", "h", "a", "n", "c", "e">>
S_reduced == <<"r", "e", "d", "u", "c", "e", "d">>
S_damage == <<"d", "a", "m", "a", "g", "e">>
S_fire == <<"f", "i", "r", "e">>

\* the index where the word \w+ of  (\d+)%\s*reduced\s*(\w+)\s*damage  starts
ReducedWordStart(t, i) == SkipSpaces(t, AfterWord(t, i, S_reduced))

\* the ends the word \w+ may take: \w+ is greedy and gives characters back
\* until  \s*damage  follows
ReducedWordEnds(t, i) ==
    {e \in (ReducedWordStart(t, i) + 1)..WordEnd(t, ReducedWordStart(t, i)) :
        StartsWithAt(t, SkipSpaces(t, e), S_damage)}

\* the positions where  (\d+)%\s*reduced\s*(\w+)\s*damage  matches
ReducedStarts(t) ==
    {i \in 1..Len(t) : PercentWordAt(t, i, S_reduced) /\ ReducedWordEnds(t, i) # {}}

\* the greatest element of a non-empty set of positions
Rightmost(S) == CHOOSE x \in S : \A y \in S : x >= y

\* re.search(r'(\d+)%\s*reduced\s*(\w+)\s*damage', t)
MatchReduced(t) ==
    IF ReducedStarts(t) = {} THEN NoMatch
    ELSE [found |-> TRUE,
          value |-> NumberAt(t, Leftmost(ReducedStarts(t))),
          word |-> SubSeq(t, ReducedWordStart(t, Leftmost(ReducedStarts(t))),
                          Rightmost(ReducedWordEnds(t, Leftmost(ReducedStarts(t)))) - 1)]

----------------------------------------------------------------------------
\* run_simulacra (main.py), with the names it uses resolved to their
\* definitions: calculate_initial_stats and process_trait_effects in
\* modules/traits.py, DisasterSystem and DISASTER_TYPES in modules/disasters.py,
\* DISASTER_INTERVAL in modules/constants.py.

\* m[k] = v on a dictionary
MapSet(m, k, v) == [x \in (DOMAIN m) \cup {k} |-> IF x = k THEN v ELSE m[x]]
\* m.get(k, 0)
MapGet(m, k) == IF k \in DOMAIN m THEN m[k] ELSE 0

\* n / d rounded to the nearest integer, ties to even (Python's round)
RoundDiv(n, d) ==
    LET q == n \div d
        r == n % d
    IN  IF 2 * r > d THEN q + 1
        ELSE IF 2 * r < d THEN q
        ELSE IF q % 2 = 0 THEN q ELSE q + 1

\* process_trait_effects works on acc = [stats, num, den], where
\* hp_multiplier = num / den; t is the lower-cased effect text

\* hp_multiplier *= (1 + mod / 100)
MultiplyHp(acc, mod) == [acc EXCEPT !.num = acc.num * (100 + mod), !.den = acc.den * 100]

\* the branch `if 'hp' in effect_text`
EffectHp(acc, t) ==
    IF Contains(t, S_hp) /\ MatchHp(t).found THEN MultiplyHp(acc, MatchHp(t).value)
    ELSE acc

\* stats['entropy_reduction'] = min(100, current + value)
AddEntropyReduction(acc, value) ==
    [acc EXCEPT !.stats.entropy_reduction = Min2(100, acc.stats.entropy_reduction + value)]

\* the branch `if 'entropy' in effect_text and 'reduction' in effect_text`
EffectEntropy(acc, t) ==
    IF /\ Contains(t, S_entropy)
       /\ Contains(t, S_reduction)
       /\ MatchPercentWord(t, S_entropy, S_reduction).found
    THEN AddEntropyReduction(acc, MatchPercentWord(t, S_entropy, S_reduction).value)
    ELSE acc

\* stats['resistances'][dtype] = min(100, current + value)
SetResistance(acc, dtype, current, value) ==
    [acc EXCEPT !.stats.resistances =
                    MapSet(acc.stats.resistances, dtype, Min2(100, current + value))]

\* the branch `if 'chance to resist fire' in effect_text`, where current is
\* stats.get('fire_resistance', 0), a key that is never written
EffectFire(acc, t) ==
    IF Contains(t, S_resist_fire) /\ MatchPercentWord(t, S_chance, <<>>).found
    THEN SetResistance(acc, S_fire, 0, MatchPercentWord(t, S_chance, <<>>).value)
    ELSE acc

\* the branch `if 'reduced' in effect_text and 'damage' in effect_text`
EffectReduced(acc, t) ==
    IF Contains(t, S_reduced) /\ Contains(t, S_damage) /\ MatchReduced(t).found
    THEN SetResistance(acc, MatchReduced(t).word,
                       MapGet(acc.stats.resistances, MatchReduced(t).word),
                       MatchReduced(t).value)
    ELSE acc

\* one pass of the loop of process_trait_effects over an effect text
ProcessEffect(acc, text) ==
    EffectReduced(EffectFire(EffectEntropy(EffectHp(acc, Lower(text)), Lower(text)),
                             Lower(text)), Lower(text))

RECURSIVE ProcessEffects(_, _, _)
ProcessEffects(effects, i, acc) ==
    IF i > Len(effects) THEN acc
    ELSE ProcessEffects(effects, i + 1, ProcessEffect(acc, effects[i]))

\* max_hp = round(max_hp * hp_multiplier, 2)
RoundedMaxHp(acc) == RoundDiv(acc.stats.max_hp * acc.num, acc.den * 10) * 10

\* stats['max_hp'] = ...; stats['current_hp'] = stats['max_hp']
SetHp(st, hp) == [st EXCEPT !.max_hp = hp, !.current_hp = hp]

\* the statements of process_trait_effects after the loop
FinishTrait(acc) == SetHp(acc.stats, RoundedMaxHp(acc))

\* process_trait_effects(stats, trait)
process_trait_effects(st, trait) ==
    FinishTrait(ProcessEffects(trait.effects, 1, [stats |-> st, num |-> 1, den |-> 1]))

\* a stats dictionary that starts below the baseline
BaseStats_LowHp == [current_hp |-> 90000, max_hp |-> RS_BASE_HP, mutation_rate |-> 0,
                    resistances |-> EmptyMap, immunities |-> {}, entropy_reduction |-> 0]

\* the stats dictionary calculate_initial_stats starts from
BaseStats == [current_hp |-> RS_BASE_HP, max_hp |-> RS_BASE_HP, mutation_rate |-> 0,
              resistances |-> EmptyMap, immunities |-> {}, entropy_reduction |-> 0]

RECURSIVE ProcessLoadout(_, _, _)
ProcessLoadout(lo, i, st) ==
    IF i > Len(lo) THEN st
    ELSE ProcessLoadout(lo, i + 1, process_trait_effects(st, lo[i]))

\* calculate_initial_stats(loadout)
\* the two clamps at the end of calculate_initial_stats
ClampStats(st) ==
    [st EXCEPT !.mutation_rate = Max2(0, st.mutation_rate),
               !.current_hp = Min2(st.current_hp, st.max_hp)]

\* calculate_initial_stats(loadout)
calculate_initial_stats(lo) == ClampStats(ProcessLoadout(lo, 1, BaseStats))

\* the traits a loadout is drawn from
T_hp10 == <<"+", "1", "0", "%", " ", "H", "P">>
T_entropy100 == <<"1", "0", "0", "%", " ", "E", "n", "t", "r", "o", "p", "y", " ", "R", "e", "d", "u", "c", "t", "i", "o", "n">>
T_system100 == <<"1", "0", "0", "%", " ", "r", "e", "d", "u", "c", "e", "d", " ", "s", "y", "s", "t", "e", "m", " ", "d", "a", "m", "a", "g", "e">>
T_data100 == <<"1", "0", "0", "%", " ", "r", "e", "d", "u", "c", "e", "d", " ", "d", "a", "t", "a", " ", "d", "a", "m", "a", "g", "e">>
T_entropy_damage100 == <<"1", "0", "0", "%", " ", "r", "e", "d", "u", "c", "e", "d", " ", "e", "n", "t", "r", "o", "p", "y", " ", "d", "a", "m", "a", "g", "e">>
T_fire25 == <<"2", "5", "%", " ", "c", "h", "a", "n", "c", "e", " ", "t", "o", " ", "r", "e", "s", "i", "s", "t", " ", "f", "i", "r", "e">>

TraitPool ==
    {[name |-> "vital", effects |-> <<T_hp10>>],
     [name |-> "bulwark", effects |-> <<T_entropy100, T_system100, T_data100,
                                        T_entropy_damage100>>],
     [name |-> "ember", effects |-> <<T_fire25>>]}

RECURSIVE LoadoutsOfLength(_)
LoadoutsOfLength(n) ==
    IF n = 0 THEN {<<>>}
    ELSE {Append(l, a) : l \in LoadoutsOfLength(n - 1), a \in TraitPool}

Loadouts == UNION {LoadoutsOfLength(n) : n \in 0..MaxLoadout}

\* DISASTER_TYPES[type].base_damage for the types of _get_default_parts
S_system == <<"s", "y", "s", "t", "e", "m">>
S_data == <<"d", "a", "t", "a">>
DisasterPartTypes == {S_system, S_data, S_entropy}
DisasterTypeDamage(type) ==
    CASE type = S_system -> 14000
      [] type = S_data -> 13000
      [] type = S_entropy -> 17000

\* DisasterSystem.generate_disaster: the type and damage of the dictionary
generate_disaster(type) == [type |-> type, damage |-> DisasterTypeDamage(type)]

\* DisasterSystem.calculate_base_damage(disaster)
calculate_base_damage(d) == d.damage

\* the mechanical effects of the mutations check_mutation may return
MutationEffects ==
    {[type |-> "entropy_reduction", value |-> 10],
     [type |-> "max_hp", value |-> 10],
     [type |-> "mutation_rate", value |-> 60],
     [type |-> "resistance_all", value |-> 30]}

NoMutation == [type |-> "none", value |-> 0]

\* MutationSystem.check_mutation(rate): None or a mutation
check_mutation(m) ==
    \/ m = NoMutation
    \/ /\ m \in MutationEffects
       /\ Len(rs_mutations) < MaxMutations
       /\ rs_survival_seconds < MaxMutationTime

\* the branch on effect['type'] in run_simulacra
ApplyMutation(st, m) ==
    CASE m.type = "entropy_reduction" ->
            [st EXCEPT !.entropy_reduction = st.entropy_reduction + m.value]
      [] m.type = "max_hp" ->
            LET hp_increase == (st.max_hp * m.value) \div 100
            IN  [st EXCEPT !.max_hp = st.max_hp + hp_increase,
                           !.current_hp = st.current_hp + hp_increase]
      [] m.type = "mutation_rate" ->
            [st EXCEPT !.mutation_rate = st.mutation_rate + m.value * 1000]
      [] m.type = "resistance_all" ->
            [st EXCEPT !.resistances =
                [k \in DOMAIN st.resistances |-> Min2(100, st.resistances[k] + m.value)]]
      [] OTHER -> st

\* actual_drain = entropy_drain * (1 - entropy_reduction); current_hp = max(0, ...)
ApplyDrain(st) ==
    LET actual_drain == (BASE_ENTROPY_DRAIN * (100 - st.entropy_reduction)) \div 100
    IN  [st EXCEPT !.current_hp = Max2(0, st.current_hp - actual_drain)]

\* stats['current_hp'] as far as the run is followed
UpToMaxHp(st) == [st EXCEPT !.current_hp = Min2(st.current_hp, MaxHp)]

\* the damage of a disaster in run_simulacra
ActualDamage(st, d) ==
    (calculate_base_damage(d) * (100 - MapGet(st.resistances, Lower(d.type)))) \div 100

\* recent_disasters.append(disaster); recent_disasters[-MAX_RECENT_DISASTERS:]
LastDisasters(hist, d) ==
    LET appended == Append(hist, d)
    IN  IF Len(appended) > MAX_RECENT_DISASTERS
        THEN SubSeq(appended, Len(appended) - MAX_RECENT_DISASTERS + 1, Len(appended))
        ELSE appended

\* run_simulacra(loadout) is called
RSCall(lo) ==
    /\ rs_pc = "idle"
    /\ rs_pc' = "start"
    /\ loadout' = lo
    /\ op' = "run_simulacra"
    /\ UNCHANGED <<stats, rs_survival_seconds, rs_recent_disasters, rs_mutations>>
    /\ UNCHANGED <<objectVars, calls, parserVars, gamesVars>>

\* the statements before the loop without the test of the loadout
RSStart_NoCheck ==
    /\ rs_pc = "start"
    /\ rs_pc' = "loop"
    /\ op' = "initial_stats"
    /\ stats' = calculate_initial_stats(loadout)
    /\ rs_survival_seconds' = 0
    /\ rs_recent_disasters' = <<>>
    /\ rs_mutations' = <<>>
    /\ UNCHANGED loadout
    /\ UNCHANGED <<objectVars, calls, parserVars, gamesVars>>

\* `if not loadout: logger.error(...); return`, else the statements before the
\* loop.  rs_pc = "rejected" is the call having returned (None) from that
\* `return`; no statement of run_simulacra raises to its caller, which would
\* be rs_pc = "raised".
RSStart ==
    /\ rs_pc = "start"
    /\ IF loadout = <<>>
       THEN /\ rs_pc' = "rejected"
            /\ op' = "no_loadout"
            /\ UNCHANGED stats
       ELSE /\ rs_pc' = "loop"
            /\ op' = "initial_stats"
            /\ stats' = calculate_initial_stats(loadout)
    /\ rs_survival_seconds' = 0
    /\ rs_recent_disasters' = <<>>
    /\ rs_mutations' = <<>>
    /\ UNCHANGED loadout
    /\ UNCHANGED <<objectVars, calls, parserVars, gamesVars>>

\* one iteration of `while stats['current_hp'] > 0`.  The loop reads
\* survival_seconds only modulo DISASTER_INTERVAL; above MaxSeconds the counter
\* is kept modulo DISASTER_INTERVAL.  A current_hp above MaxHp (it grows when
\* the entropy reduction is above 100) is kept as MaxHp: the loop compares
\* current_hp with 0 only, and the kept value is never above the real one.
RSTick(m, type) ==
    LET s == rs_survival_seconds + 1
        st1 == IF m = NoMutation THEN stats ELSE ApplyMutation(stats, m)
        st2 == UpToMaxHp(ApplyDrain(st1))
        d == generate_disaster(type)
        hit == /\ s % DISASTER_INTERVAL = 0
               /\ Lower(d.type) \notin st2.immunities
               /\ ActualDamage(st2, d) > 0
    IN  /\ rs_pc = "loop"
        /\ stats.current_hp > 0
        /\ check_mutation(m)
        /\ (s % DISASTER_INTERVAL # 0 => type = S_system)
        /\ rs_survival_seconds' = IF s > MaxSeconds THEN s - DISASTER_INTERVAL ELSE s
        /\ rs_mutations' = IF m = NoMutation THEN rs_mutations ELSE Append(rs_mutations, m)
        /\ stats' = IF hit
                    THEN [st2 EXCEPT !.current_hp = Max2(0, st2.current_hp - ActualDamage(st2, d))]
                    ELSE st2
        /\ rs_recent_disasters' = IF hit THEN LastDisasters(rs_recent_disasters, d)
                                         ELSE rs_recent_disasters
        /\ op' = "rs_tick"
        /\ UNCHANGED <<rs_pc, loadout>>
        /\ UNCHANGED <<objectVars, calls, parserVars, gamesVars>>

\* the loop condition fails: show_collapse_summary
RSCollapse ==
    /\ rs_pc = "loop"
    /\ stats.current_hp <= 0
    /\ rs_pc' = "collapsed"
    /\ op' = "collapse"
    /\ UNCHANGED <<loadout, stats, rs_survival_seconds, rs_recent_disasters, rs_mutations>>
    /\ UNCHANGED <<objectVars, calls, parserVars, gamesVars>>

NextRS ==
    \/ \E lo \in Loadouts : RSCall(lo)
    \/ RSStart
    \/ \E m \in MutationEffects \cup {NoMutation}, type \in DisasterPartTypes : RSTick(m, type)
    \/ RSCollapse

SpecRS == Init /\ [][NextRS]_vars

\* the while loop of run_simulacra: an iteration or the exit
RSLoop ==
    \/ \E m \in MutationEffects \cup {NoMutation}, type \in DisasterPartTypes : RSTick(m, type)
    \/ RSCollapse

\* the loop keeps running: time.sleep(1) returns and the next iteration starts
SpecRSFair == SpecRS /\ WF_vars(RSLoop)

----------------------------------------------------------------------------
\* Properties of the SimulacraGame run (specification Spec)

RunOps == {"run", "tick", "game_over"}

\* C1: once the loop has observed health <= 0 (game_over is set), no later
\* step of run() changes survival_seconds, health, mutation rate,
\* recent_disasters or disaster_count.
C1_TerminalRunIsFrozen ==
    [][(game_over /\ op' \in RunOps)
       => UNCHANGED <<survival_seconds, health, mutation_rate, recent_disasters,
                      disaster_count>>]_vars

\* C2: a tick whose entropy drain brings health to 0 ends with health <= 0, so
\* the next game-over check ends the run
C2_DrainToZeroEndsRun ==
    [][(op' = "tick" /\ survival_seconds' = survival_seconds + 1
          /\ HealthAfterEntropy(health, survival_seconds + 1) <= 0)
       => health' <= 0]_vars

\* C3: health never exceeds max_health
C3_HealthAtMostMax == health <= max_health

\* C3 as amended: entropy drain, disaster damage and regen heals never raise
\* health above max(max_health, its value before), and a regen heal leaves it
\* at most max_health; only trait effects add to health unclamped
C3_HealthBoundedExceptTraits ==
    [][/\ (op' \in RunOps \cup {"trigger_disaster"} =>
              health' <= Max2(health, max_health))
       /\ (op' = "tick" /\ regen_tick' = 0 /\ "regen" \in active_mutations =>
              health' <= max_health)]_vars

C3_Witness ==
    /\ op = "tick"
    /\ regen_tick = 0
    /\ "tough" \in active_traits
    /\ health = max_health

\* C4: health is never negative
C4_HealthNonNegative == health >= 0

\* C7: a disaster of a type the player is immune to leaves health unchanged and
\* is recorded with zero damage
C7_ImmuneTakesNoDamage ==
    [][(op' = "trigger_disaster" /\ disaster'.id # "none"
          /\ Disasters[disaster'.id].type \in immunities)
       => /\ health' = health
          /\ disaster'.final = 0
          /\ recent_disasters'[Len(recent_disasters')].damage = 0]_vars

\* C10: every entry of the resistance map is at most 100
C10_ResistancesCapped ==
    /\ \A k \in DOMAIN resistances : resistances[k] <= 100
    /\ \A k \in DOMAIN stats.resistances : stats.resistances[k] <= 100

\* C6: a disaster is never returned by trigger_random_disaster at a time less
\* than its cooldown after its last occurrence, and at its last occurrence plus
\* its cooldown it is among the available disasters again.
C6_CooldownRespected ==
    [][(op' = "trigger_random_disaster" /\ calls' = calls + 1)
       => \A a \in DOMAIN last_occurrence :
             /\ (current_time' - last_occurrence[a] < Disasters[a].cooldown
                    => disaster'.id # a)
             /\ a \in available_disasters(last_occurrence,
                                          last_occurrence[a] + Disasters[a].cooldown)]_vars

\* a disaster returned a second time exactly one cooldown after the first
C6_Witness ==
    /\ op = "trigger_random_disaster"
    /\ disaster.id # "none"
    /\ disaster.prev # NoOccurrence
    /\ current_time - disaster.prev = Disasters[disaster.id].cooldown

\* C8: whatever resistance is stored for the disaster's type, the final damage
\* is at least 20% of the scaled damage.
C8_DamageFloor ==
    op = "calculate_disaster_damage" => 5 * disaster.final >= disaster.scaled

\* a stored resistance above the cap, reduced to the cap in the computation
C8_Witness ==
    /\ op = "calculate_disaster_damage"
    /\ Disasters[disaster.id].type \in DOMAIN resistances
    /\ resistances[Disasters[disaster.id].type] > RESISTANCE_CAP
    /\ disaster.final = (disaster.scaled * (100 - RESISTANCE_CAP)) \div 100

----------------------------------------------------------------------------
\* The effect parsers of modules/traits.py that work with str.split and float

\* text.find(pat) + 1: where pat first occurs in t, 0 when it does not
IndexOf(t, pat) ==
    IF Contains(t, pat)
    THEN Leftmost({i \in 1..(Len(t) + 1) : StartsWithAt(t, i, pat)})
    ELSE 0

\* t.split(sep)[0]
Before(t, sep) == IF IndexOf(t, sep) = 0 THEN t ELSE SubSeq(t, 1, IndexOf(t, sep) - 1)

\* t.split(sep)[1], for a t in which sep occurs (IndexError when it does not)
Piece1(t, sep) == Before(SubSeq(t, IndexOf(t, sep) + Len(sep), Len(t)), sep)

\* t.replace(c, "")
Remove(t, c) == SelectSeq(t, LAMBDA x : x # c)

RECURSIVE Strip(_)
\* t.strip()
Strip(t) ==
    IF t # <<>> /\ IsSpace(t[1]) THEN Strip(Tail(t))
    ELSE IF t # <<>> /\ IsSpace(t[Len(t)]) THEN Strip(SubSeq(t, 1, Len(t) - 1))
    ELSE t

\* float(t) on a text of digits, signs, spaces, '%' and letters that spells no
\* exponent, inf or nan: surrounding whitespace, one optional sign, digits.
\* FloatOk: float(t) returns (it raises ValueError otherwise)
FloatDigits(t) ==
    IF Strip(t) # <<>> /\ Strip(t)[1] \in {"+", "-"} THEN Tail(Strip(t)) ELSE Strip(t)
FloatOk(t) ==
    /\ FloatDigits(t) # <<>>
    /\ \A i \in 1..Len(FloatDigits(t)) : IsDigit(FloatDigits(t)[i])
FloatValue(t) ==
    IF Strip(t)[1] = "-"
    THEN 0 - ParseDigits(FloatDigits(t), 1, Len(FloatDigits(t)) + 1, 0)
    ELSE ParseDigits(FloatDigits(t), 1, Len(FloatDigits(t)) + 1, 0)

S_percent == <<"%">>

\* the call raised
Raised(o) == [o EXCEPT !.raised = TRUE]
\* effect["type"] = type; effect["value"] = a number
WithNumber(o, type, v) == [o EXCEPT !.type = type, !.value = v, !.word = <<>>]

\* effect_text.split("%")[0].replace("+", "").replace("-", "")
UnsignedNumber(t) == Remove(Remove(Before(t, S_percent), "+"), "-")

\* a branch of TraitManager.parse_effect: the TraitEffect of the given type
SignedEffect(type, t) ==
    IF ~FloatOk(UnsignedNumber(t)) THEN Raised(NoOutcome)
    ELSE WithNumber(NoOutcome, type,
                    IF Contains(t, <<"+">>) THEN FloatValue(UnsignedNumber(t))
                    ELSE 0 - FloatValue(UnsignedNumber(t)))

\* TraitManager.parse_effect(effect_text)
parse_effect(t) ==
    IF Contains(t, <<"%", " ", "H", "P">>) THEN SignedEffect("hp", t)
    ELSE IF Contains(t, <<"M", "u", "t", "a", "t", "i", "o", "n", " ", "R", "a", "t", "e">>) THEN SignedEffect("mutation_rate", t)
    ELSE WithNumber(NoOutcome, "unknown", 0)

\* effect_text.split(sign)[1].split("%")[0], for a text with sign in it
NumberAfter(t, sign) == Before(Piece1(t, <<sign>>), S_percent)

\* float(effect_text.split(sign)[1].split("%")[0]), negated for "-"
SignedNumber(o, type, t, sign) ==
    IF ~FloatOk(NumberAfter(t, sign)) THEN Raised(o)
    ELSE WithNumber(o, type, IF sign = "-" THEN 0 - FloatValue(NumberAfter(t, sign))
                                           ELSE FloatValue(NumberAfter(t, sign)))

\* `if "+%" in effect_text: ... elif "-%" in effect_text: ...`
SignedPercent(o, type, t) ==
    IF Contains(t, <<"+", "%">>) THEN SignedNumber(o, type, t, "+")
    ELSE IF Contains(t, <<"-", "%">>) THEN SignedNumber(o, type, t, "-")
    ELSE o

\* parse_hp_modifier(effect_text): a float, 0.0 when neither marker occurs
parse_hp_modifier(t) == SignedPercent(WithNumber(NoOutcome, "float", 0), "float", t)

\* the `if marker in effect_text` blocks of parse_trait_effect for HP and
\* Mutation Rate
EffectSigned(o, t, marker, type) ==
    IF o.raised \/ ~Contains(t, marker) THEN o ELSE SignedPercent(o, type, t)

\* the block `if "Immune to" in effect_text`
EffectImmune(o, t) ==
    IF o.raised \/ ~Contains(t, <<"I", "m", "m", "u", "n", "e", " ", "t", "o">>) THEN o
    ELSE IF ~Contains(t, <<"I", "m", "m", "u", "n", "e", " ", "t", "o", " ">>) THEN Raised(o)
    ELSE [o EXCEPT !.type = "immunity", !.value = 0,
                   !.word = Before(Piece1(t, <<"I", "m", "m", "u", "n", "e", " ", "t", "o", " ">>), <<" ">>)]

\* the block `if "reduced" in effect_text and "damage" in effect_text`
EffectResistance(o, t) ==
    IF o.raised \/ ~(Contains(t, S_reduced) /\ Contains(t, S_damage)) THEN o
    ELSE IF ~FloatOk(Before(t, S_percent)) \/ ~Contains(t, <<"r", "e", "d", "u", "c", "e", "d", " ">>) THEN Raised(o)
    ELSE [WithNumber(o, "resistance", FloatValue(Before(t, S_percent)))
             EXCEPT !.damage_type = Before(Piece1(t, <<"r", "e", "d", "u", "c", "e", "d", " ">>), <<" ">>)]

\* parse_trait_effect(effect_text); type "none" is the empty dictionary
parse_trait_effect(t) ==
    EffectResistance(
        EffectImmune(
            EffectSigned(EffectSigned(NoOutcome, t, <<"H", "P">>, "hp"),
                         t, <<"M", "u", "t", "a", "t", "i", "o", "n", " ", "R", "a", "t", "e">>, "mutation_rate"), t), t)

----------------------------------------------------------------------------
\* The other two resolvers of modules/traits.py: the module-level
\* apply_trait_effects and TraitManager.calculate_stats.  Both run one
\* accumulator over the effects of the traits in order; acc is
\* [stats, hp, raised] with hp the running hp_multiplier.

RECURSIVE AllTexts(_, _)
\* the effect texts of the traits from trait i on, in the order of the loops
AllTexts(lo, i) == IF i > Len(lo) THEN <<>> ELSE lo[i].effects \o AllTexts(lo, i + 1)

NewAcc == [stats |-> BaseStats, hp |-> 0, raised |-> FALSE]

\* parse_immunity(effect_text)
parse_immunity(t) == Lower(Before(Piece1(t, <<"I", "m", "m", "u", "n", "e", " ", "t", "o", " ">>), <<" ">>))

\* the body of the effect loop of apply_trait_effects
ApplyStep(acc, t) ==
    IF acc.raised THEN acc
    ELSE IF Contains(t, <<"%", " ", "H", "P">>)
    THEN IF parse_hp_modifier(t).raised THEN [acc EXCEPT !.raised = TRUE]
         ELSE [acc EXCEPT !.hp = @ + parse_hp_modifier(t).value]
    ELSE IF Contains(t, <<"M", "u", "t", "a", "t", "i", "o", "n", " ", "R", "a", "t", "e">>)
    THEN IF parse_hp_modifier(t).raised THEN [acc EXCEPT !.raised = TRUE]
         ELSE [acc EXCEPT !.stats.mutation_rate = @ + 1000 * parse_hp_modifier(t).value]
    ELSE IF Contains(t, <<"I", "m", "m", "u", "n", "e", " ", "t", "o">>)
    THEN IF ~Contains(t, <<"I", "m", "m", "u", "n", "e", " ", "t", "o", " ">>) THEN [acc EXCEPT !.raised = TRUE]
         ELSE [acc EXCEPT !.stats.immunities = @ \cup {parse_immunity(t)}]
    ELSE acc

RECURSIVE ApplyLoop(_, _, _)
ApplyLoop(texts, i, acc) ==
    IF i > Len(texts) THEN acc ELSE ApplyLoop(texts, i + 1, ApplyStep(acc, texts[i]))

\* apply_hp_modifier(stats, hp_multiplier)
apply_hp_modifier(acc) ==
    IF acc.hp # 0 /\ ~acc.raised
    THEN [acc EXCEPT !.stats = SetHp(acc.stats, (RS_BASE_HP * (100 + acc.hp)) \div 100)]
    ELSE acc

\* apply_trait_effects(traits), the module-level function
apply_trait_effects(lo) == apply_hp_modifier(ApplyLoop(AllTexts(lo, 1), 1, NewAcc))

\* TraitManager._apply_hp_modifier(stats, percent): the percentage is added to
\* the total applied to base_hp
ManagerHp(st, percent) == SetHp(st, st.max_hp + (RS_BASE_HP * percent) \div 100)

\* TraitManager._apply_resistance(stats, damage_type, value)
ManagerResistance(st, dtype, value) ==
    [st EXCEPT !.resistances = MapSet(st.resistances, dtype,
                                      Min2(100, MapGet(st.resistances, dtype) + value))]

\* effect_text.split("immune to ")[1].split()[0] on a text without tabs; it
\* raises IndexError when no word follows
ImmunityWord(t) == Before(Strip(Piece1(t, <<"i", "m", "m", "u", "n", "e", " ", "t", "o", " ">>)), <<" ">>)

\* the body of the loop of TraitManager._process_trait_effects, t lower-cased
ManagerStep(acc, t) ==
    IF acc.raised THEN acc
    ELSE IF MatchHp(t).found
    THEN [acc EXCEPT !.stats = ManagerHp(acc.stats, MatchHp(t).value)]
    ELSE IF MatchReduced(t).found
    THEN [acc EXCEPT !.stats = ManagerResistance(acc.stats, MatchReduced(t).word,
                                                 MatchReduced(t).value)]
    ELSE IF Contains(t, <<"i", "m", "m", "u", "n", "e", " ", "t", "o">>)
    THEN IF ~Contains(t, <<"i", "m", "m", "u", "n", "e", " ", "t", "o", " ">>) \/ ImmunityWord(t) = <<>>
         THEN [acc EXCEPT !.raised = TRUE]
         ELSE [acc EXCEPT !.stats.immunities = @ \cup {ImmunityWord(t)}]
    ELSE acc

RECURSIVE ManagerLoop(_, _, _)
ManagerLoop(texts, i, acc) ==
    IF i > Len(texts) THEN acc
    ELSE ManagerLoop(texts, i + 1, ManagerStep(acc, Lower(texts[i])))

\* TraitManager._normalize_stats
normalize_stats(acc) ==
    [acc EXCEPT !.stats.mutation_rate = Max2(0, Min2(MAX_MUTATION_RATE, @)),
                !.stats.current_hp = Min2(@, acc.stats.max_hp)]

\* TraitManager.calculate_stats(traits)
calculate_stats(lo) == normalize_stats(ManagerLoop(AllTexts(lo, 1), 1, NewAcc))

----------------------------------------------------------------------------
\* The parsers and resolvers called once each on an input of their own

T_hp_minus5 == <<"-", "5", "%", " ", "H", "P">>
T_hp20 == <<"+", "2", "0", "%", " ", "H", "P">>
T_hp_no_number == <<"%", " ", "H", "P">>
T_hp_sign_only == <<"+", "%", " ", "H", "P">>
T_immune_fire == <<"I", "m", "m", "u", "n", "e", " ", "t", "o", " ", "f", "i", "r", "e">>
T_immune_nothing == <<"I", "m", "m", "u", "n", "e", " ", "t", "o">>
T_fire10 == <<"1", "0", "%", " ", "r", "e", "d", "u", "c", "e", "d", " ", "f", "i", "r", "e", " ", "d", "a", "m", "a", "g", "e">>
T_mutation2 == <<"+", "2", "%", " ", "M", "u", "t", "a", "t", "i", "o", "n", " ", "R", "a", "t", "e">>
T_hp_plus15 == <<"+", "1", "5", "+", "%", " ", "H", "P">>
T_swift == <<"s", "w", "i", "f", "t">>

EffectTexts == {T_hp10, T_hp_minus5, T_hp20, T_hp_no_number, T_hp_sign_only,
                T_immune_fire, T_immune_nothing, T_fire10, T_fire25, T_mutation2,
                T_hp_plus15, T_swift}

\* a trait with one effect
Probe(t) == [name |-> "probe", effects |-> <<t>>]

\* the argument lists of the resolvers: the loadouts of a run and the lists of
\* one or two one-effect traits
ResolverLoadouts ==
    Loadouts \cup {<<Probe(t)>> : t \in EffectTexts}
             \cup {<<Probe(t), Probe(u)>> : t, u \in EffectTexts}

InitTraits ==
    /\ InitGame
    /\ InitPlayer
    /\ InitSystems
    /\ rs_pc = "idle"
    /\ loadout \in ResolverLoadouts
    /\ stats = NoStats
    /\ rs_survival_seconds = 0
    /\ rs_recent_disasters = <<>>
    /\ rs_mutations = <<>>
    /\ effect_text \in EffectTexts
    /\ outcome = NoOutcome
    /\ InitOneGame
    /\ op = "init"
    /\ calls = 0

\* a call of the function `name`: o is the effect it returns, or raised; st
\* the stats it returns
Call(name, o, st) ==
    /\ op = "init"
    /\ op' = name
    /\ outcome' = o
    /\ stats' = IF o.raised THEN stats ELSE st
    /\ UNCHANGED <<objectVars, calls, effect_text, gamesVars, rs_pc, loadout,
                   rs_survival_seconds, rs_recent_disasters, rs_mutations>>

CallParseEffect == Call("parse_effect", parse_effect(effect_text), stats)
CallParseTraitEffect == Call("parse_trait_effect", parse_trait_effect(effect_text), stats)
CallParseHpModifier == Call("parse_hp_modifier", parse_hp_modifier(effect_text), stats)
CallCalculateInitialStats ==
    Call("calculate_initial_stats", NoOutcome, calculate_initial_stats(loadout))
CallApplyTraitEffects ==
    Call("apply_trait_effects",
         [NoOutcome EXCEPT !.raised = apply_trait_effects(loadout).raised],
         apply_trait_effects(loadout).stats)
CallCalculateStats ==
    Call("calculate_stats",
         [NoOutcome EXCEPT !.raised = calculate_stats(loadout).raised],
         calculate_stats(loadout).stats)

NextTraits ==
    \/ CallParseEffect
    \/ CallParseTraitEffect
    \/ CallParseHpModifier
    \/ CallCalculateInitialStats
    \/ CallApplyTraitEffects
    \/ CallCalculateStats

SpecTraits == InitTraits /\ [][NextTraits]_vars

----------------------------------------------------------------------------
\* The two disaster histories on their own: _update_disaster_history as
\* _trigger_disaster calls it, and the append-and-slice of run_simulacra, each
\* applied once per fired disaster

\* _trigger_disaster records disaster d fired at second t
HistoryGame(d, t) ==
    /\ rs_survival_seconds = 0
    /\ disaster_count < MaxFired
    /\ survival_seconds' = t
    /\ recent_disasters' =
           update_disaster_history(recent_disasters, d, Disasters[d].damage, t)
    /\ disaster_count' = disaster_count + 1
    /\ disaster' = [id |-> d, scaled |-> Disasters[d].damage,
                    final |-> Disasters[d].damage, prev |-> NoOccurrence]
    /\ op' = "update_disaster_history"
    /\ UNCHANGED <<pc, is_running, game_over, entropy_drain, regen_tick, calls>>
    /\ UNCHANGED <<playerVars, traitVars, disasterVars, mutationVars, rsVars, parserVars, gamesVars>>

\* run_simulacra records a disaster of the given type that did damage
HistoryRS(type) ==
    /\ disaster_count = 0
    /\ rs_survival_seconds < MaxFired * DISASTER_INTERVAL
    /\ rs_survival_seconds' = rs_survival_seconds + DISASTER_INTERVAL
    /\ rs_recent_disasters' = LastDisasters(rs_recent_disasters, generate_disaster(type))
    /\ op' = "recent_disasters"
    /\ UNCHANGED <<rs_pc, loadout, stats, rs_mutations, calls>>
    /\ UNCHANGED <<objectVars, parserVars, gamesVars>>

NextHistory ==
    \/ \E d \in DisasterIds, t \in {survival_seconds + 1} : HistoryGame(d, t)
    \/ \E type \in DisasterPartTypes : HistoryRS(type)

SpecHistory == Init /\ [][NextHistory]_vars

\* new is old with entry appended, cut to the last MAX_RECENT_DISASTERS entries
KeepsMostRecent(old, new, n) ==
    /\ n = Min2(Len(old) + 1, MAX_RECENT_DISASTERS)
    /\ Len(new) = n
    /\ \A i \in 1..(n - 1) : new[i] = old[Len(old) - (n - 1) + i]

\* C11: a history holds at most MAX_RECENT_DISASTERS entries; a fired disaster
\* becomes its last entry, the entries before it are the most recent earlier
\* ones in their order, and an entry that leaves is the oldest.
C11_HistoryKeepsMostRecent ==
    [][/\ (op' = "update_disaster_history" =>
              /\ KeepsMostRecent(recent_disasters, recent_disasters',
                                 Len(recent_disasters'))
              /\ recent_disasters'[Len(recent_disasters')].name = disaster'.id
              /\ recent_disasters'[Len(recent_disasters')].time = survival_seconds')
       /\ (op' = "recent_disasters" =>
              KeepsMostRecent(rs_recent_disasters, rs_recent_disasters',
                              Len(rs_recent_disasters')))]_vars

\* a sixth disaster has been recorded: the one of second 1 is gone
C11_Witness ==
    /\ op = "update_disaster_history"
    /\ disaster_count = MAX_RECENT_DISASTERS + 1
    /\ Len(recent_disasters) = MAX_RECENT_DISASTERS
    /\ recent_disasters[1].time = 2

----------------------------------------------------------------------------
\* Properties of initial stat resolution

RECURSIVE SumHpPercents(_, _)
\* the sum of the signed HP percentages written in a list of effect texts
SumHpPercents(effects, i) ==
    IF i > Len(effects) THEN 0
    ELSE MatchHp(Lower(effects[i])).value + SumHpPercents(effects, i + 1)

RECURSIVE TotalHpPercent(_, _)
\* the same sum over the traits of a loadout, from trait i
TotalHpPercent(lo, i) ==
    IF i > Len(lo) THEN 0
    ELSE SumHpPercents(lo[i].effects, 1) + TotalHpPercent(lo, i + 1)

\* C13: the resolved max_hp is 100 * (1 + total/100), where total is the sum of
\* the HP percentages of the whole loadout, and current_hp = max_hp.
C13_HpPercentsSummedOnce ==
    op = "initial_stats" =>
        /\ 100 * stats.max_hp = RS_BASE_HP * (100 + TotalHpPercent(loadout, 1))
        /\ stats.current_hp = stats.max_hp

\* C14: resolving any reordering of the loadout gives the same stats.
C14_OrderIndependent ==
    op = "calculate_initial_stats" =>
        \A p \in Permutations(1..Len(loadout)) :
            calculate_initial_stats([i \in 1..Len(loadout) |-> loadout[p[i]]]) = stats

\* C15: resolving the empty trait list returns the baseline: max_hp 100.0,
\* current_hp equal to it, mutation rate 0, no resistances, no immunities.
C15_EmptyListGivesBaseline ==
    (op \in {"calculate_initial_stats", "calculate_stats", "apply_trait_effects"}
        /\ loadout = <<>>) =>
        /\ ~outcome.raised
        /\ stats.max_hp = 100000
        /\ stats.current_hp = stats.max_hp
        /\ stats.mutation_rate = 0
        /\ DOMAIN stats.resistances = {}
        /\ stats.immunities = {}

C15_Witness ==
    /\ op = "calculate_initial_stats"
    /\ loadout = <<>>
    /\ stats.max_hp = RS_BASE_HP

\* a text of the form <sign><digits>% HP
HpForm(t) ==
    /\ Len(t) >= 6
    /\ t[1] \in {"+", "-"}
    /\ \A i \in 2..(Len(t) - 4) : IsDigit(t[i])
    /\ SubSeq(t, Len(t) - 3, Len(t)) = <<"%", " ", "H", "P">>

\* the signed number such a text writes
HpFormNumber(t) ==
    IF t[1] = "-" THEN 0 - ParseDigits(t, 2, Len(t) - 3, 0)
    ELSE ParseDigits(t, 2, Len(t) - 3, 0)

\* C16: a parser given a text of the form <sign><digits>% HP returns an HP
\* effect whose magnitude is the signed number of the text.
C16_HpPercentParsed ==
    (op \in {"parse_effect", "parse_trait_effect", "parse_hp_modifier"}
        /\ HpForm(effect_text)) =>
        /\ ~outcome.raised
        /\ outcome.value = HpFormNumber(effect_text)
        /\ (op # "parse_hp_modifier" => outcome.type = "hp")

\* C17: no parser call and no stat resolution raises, whatever the text.
C17_ParsingNeverRaises ==
    op \in {"parse_effect", "parse_trait_effect", "calculate_stats"} => ~outcome.raised

----------------------------------------------------------------------------
\* MutationSystem (core/mutations.py) and the lookups of TraitSystem
\* (core/traits.py), called by a host on the systems of a constructed game

\* Mutation(id, ..., power, active): the fields the system reads
Mutation(id, power, active) == [id |-> id, power |-> power, active |-> active]

\* a call given only an id
OnlyId(id) == Mutation(id, 0, FALSE)

\* the result of a lookup that found nothing
NotStored == [power |-> 0, active |-> FALSE]

\* MutationSystem.add_mutation(mutation): self.mutations[mutation.id] = mutation,
\* and the id joins active_mutations when the mutation is active
add_mutation_KeepFirst(muts, act, m) ==
    [mutations |-> [x \in (DOMAIN muts) \cup {m.id} |->
                       IF x \in DOMAIN muts THEN muts[x]
                       ELSE [power |-> m.power, active |-> m.active]],
     active_mutations |-> IF m.active THEN act \cup {m.id} ELSE act]
add_mutation(muts, act, m) ==
    [mutations |-> [x \in (DOMAIN muts) \cup {m.id} |->
                       IF x = m.id THEN [power |-> m.power, active |-> m.active]
                       ELSE muts[x]],
     active_mutations |-> IF m.active THEN act \cup {m.id} ELSE act]

\* MutationSystem.remove_mutation(mutation_id)
remove_mutation_AlwaysTrue(muts, act, id) ==
    [mutations |-> [x \in (DOMAIN muts) \ {id} |-> muts[x]],
     active_mutations |-> act \ {id},
     returns |-> TRUE]
remove_mutation(muts, act, id) ==
    IF id \in DOMAIN muts
    THEN [mutations |-> [x \in (DOMAIN muts) \ {id} |-> muts[x]],
          active_mutations |-> act \ {id},
          returns |-> TRUE]
    ELSE [mutations |-> muts, active_mutations |-> act, returns |-> FALSE]

\* MutationSystem.get_mutation(mutation_id): self.mutations.get(mutation_id)
get_mutation(muts, id) == IF id \in DOMAIN muts THEN muts[id] ELSE NotStored

\* MutationSystem.activate_mutation(mutation_id)
activate_mutation(muts, act, id) ==
    IF id \in DOMAIN muts
    THEN [mutations |-> [muts EXCEPT ![id].active = TRUE],
          active_mutations |-> act \cup {id},
          returns |-> TRUE]
    ELSE [mutations |-> muts, active_mutations |-> act, returns |-> FALSE]

\* MutationSystem.deactivate_mutation(mutation_id): the test is on
\* active_mutations, and self.mutations[mutation_id] raises KeyError for an
\* active id that is not stored
DeactivateRaises(muts, act, id) == id \in act /\ id \notin DOMAIN muts
deactivate_mutation(muts, act, id) ==
    IF id \in act /\ id \in DOMAIN muts
    THEN [mutations |-> [muts EXCEPT ![id].active = FALSE],
          active_mutations |-> act \ {id},
          returns |-> TRUE]
    ELSE [mutations |-> muts, active_mutations |-> act \ {id},
          returns |-> FALSE]

\* what a call of the systems returned: "True", "False", "None", or the
\* stored object ("Mutation", "TraitData"); arg is the argument of the call and
\* value the mutation that get_mutation returned
Returned(type, raised, m, got) ==
    [type |-> type, raised |-> raised, arg |-> m, value |-> got]

BoolName(b) == IF b THEN "True" ELSE "False"

\* the ids and mutations a host passes: a starter id, the mutation of
\* launcher.py, and an id that is never added
AddedIds == {"regen", "rapid_healing"}
LookupIds == AddedIds \cup {"nonexistent"}
AddedPowers == {1000, 1500}

\* a call of MutationSystem: r is the state it leaves and o what it returned
MutationCall(name, r, o) ==
    /\ HostMayCall
    /\ calls' = calls + 1
    /\ op' = name
    /\ mutations' = r.mutations
    /\ active_mutations' = r.active_mutations
    /\ outcome' = o
    /\ UNCHANGED <<gameVars, playerVars, traitVars, disasterVars, rsVars, effect_text,
                   gamesVars>>

AddMutation(m) ==
    MutationCall("add_mutation", add_mutation(mutations, active_mutations, m),
                 Returned("None", FALSE, m, NotStored))

RemoveMutation(id) ==
    MutationCall("remove_mutation", remove_mutation(mutations, active_mutations, id),
                 Returned(BoolName(remove_mutation(mutations, active_mutations, id).returns),
                          FALSE, OnlyId(id), NotStored))

GetMutation(id) ==
    MutationCall("get_mutation",
                 [mutations |-> mutations, active_mutations |-> active_mutations],
                 Returned(IF id \in DOMAIN mutations THEN "Mutation" ELSE "None",
                          FALSE, OnlyId(id), get_mutation(mutations, id)))

ActivateMutation(id) ==
    MutationCall("activate_mutation", activate_mutation(mutations, active_mutations, id),
                 Returned(BoolName(activate_mutation(mutations, active_mutations, id).returns),
                          FALSE, OnlyId(id), NotStored))

DeactivateMutation(id) ==
    MutationCall("deactivate_mutation",
                 deactivate_mutation(mutations, active_mutations, id),
                 Returned(BoolName(deactivate_mutation(mutations, active_mutations, id).returns),
                          DeactivateRaises(mutations, active_mutations, id),
                          OnlyId(id), NotStored))

\* TraitSystem.get_trait(trait_id): self.traits.get(trait_id)
GetTrait(trait_id) ==
    /\ HostMayCall
    /\ calls' = calls + 1
    /\ op' = "get_trait"
    /\ outcome' = Returned(IF get_trait(trait_id) THEN "TraitData" ELSE "None",
                           FALSE, OnlyId(trait_id), NotStored)
    /\ UNCHANGED <<objectVars, rsVars, effect_text, gamesVars>>

\* TraitSystem.apply_trait_effects(trait_id, player) with its return value
ApplyTraitEffects(trait_id) ==
    /\ HostMayCall
    /\ calls' = calls + 1
    /\ op' = "apply_trait_effects"
    /\ ApplyTraitBody(trait_id)
    /\ outcome' = Returned(BoolName(get_trait(trait_id)), FALSE, OnlyId(trait_id), NotStored)
    /\ UNCHANGED <<mutationVars, rsVars, effect_text, gamesVars>>

NextSystems ==
    \/ \E id \in AddedIds, power \in AddedPowers, active \in BOOLEAN :
          AddMutation(Mutation(id, power, active))
    \/ \E id \in LookupIds : RemoveMutation(id)
    \/ \E id \in LookupIds : GetMutation(id)
    \/ \E id \in LookupIds : ActivateMutation(id)
    \/ \E id \in LookupIds : DeactivateMutation(id)
    \/ \E trait_id \in HostTraitIds : GetTrait(trait_id)
    \/ \E trait_id \in HostTraitIds : ApplyTraitEffects(trait_id)

SpecSystems == Init /\ [][NextSystems]_vars

\* the ops of MutationSystem that take an id
MutationIdOps == {"remove_mutation", "get_mutation", "activate_mutation",
                  "deactivate_mutation"}

\* every stored mutation but the one with this id is as it was
OthersKept(id) ==
    /\ (DOMAIN mutations') \ {id} = (DOMAIN mutations) \ {id}
    /\ \A x \in (DOMAIN mutations) \ {id} : mutations'[x] = mutations[x]

\* C18: the mutations are stored one per id.  add_mutation leaves the added
\* mutation stored under its id, whether or not the id was stored before, and
\* changes no other entry; remove_mutation leaves nothing under the id; no
\* other operation replaces a stored mutation's power; get_mutation(id)
\* returns what is stored, which is the mutation added last under that id.
C18_AddReplacesById ==
    [][/\ op' = "add_mutation" =>
            /\ outcome'.arg.id \in DOMAIN mutations'
            /\ get_mutation(mutations', outcome'.arg.id) =
                   [power |-> outcome'.arg.power, active |-> outcome'.arg.active]
            /\ OthersKept(outcome'.arg.id)
       /\ op' = "remove_mutation" =>
            /\ outcome'.arg.id \notin DOMAIN mutations'
            /\ OthersKept(outcome'.arg.id)
       /\ op' # "add_mutation" =>
            \A x \in (DOMAIN mutations) \cap (DOMAIN mutations') :
                mutations'[x].power = mutations[x].power
       /\ (op' = "get_mutation" /\ outcome'.arg.id \in DOMAIN mutations) =>
            /\ outcome'.type = "Mutation"
            /\ outcome'.value = mutations[outcome'.arg.id]
      ]_vars

\* an add_mutation replaced the starter mutation regen by one of another power
C18_Witness ==
    /\ op = "add_mutation"
    /\ outcome.arg.id = "regen"
    /\ outcome.arg.power = 1500
    /\ mutations["regen"].power = 1500
    /\ Cardinality(DOMAIN mutations) = Cardinality(DOMAIN InitialMutations)

\* the ops of TraitSystem that take an id
TraitIdOps == {"get_trait", "apply_trait_effects"}

\* what a call returns when it finds nothing under the id
NotFoundResult(name) == IF name \in {"get_mutation", "get_trait"} THEN "None" ELSE "False"

\* C19: a call given an id that is not stored returns its not-found result
\* (None from get_mutation and get_trait, False from remove_mutation,
\* activate_mutation, deactivate_mutation and apply_trait_effects), does not
\* raise, and leaves the game, the player and the three systems as they were.
C19_UnknownIdNotFound ==
    [][/\ (op' \in MutationIdOps /\ outcome'.arg.id \notin DOMAIN mutations) =>
            /\ ~outcome'.raised
            /\ outcome'.type = NotFoundResult(op')
            /\ UNCHANGED <<objectVars, rsVars>>
       /\ (op' \in TraitIdOps /\ ~get_trait(outcome'.arg.id)) =>
            /\ ~outcome'.raised
            /\ outcome'.type = NotFoundResult(op')
            /\ UNCHANGED <<objectVars, rsVars>>
      ]_vars

\* a starter mutation was removed and then removed again, or a trait that
\* does not exist was applied after the player had received another trait
C19_Witness ==
    \/ /\ op = "remove_mutation"
       /\ outcome.arg.id = "regen"
       /\ outcome.type = "False"
       /\ "regen" \notin DOMAIN mutations
    \/ /\ op = "apply_trait_effects"
       /\ outcome.arg.id = "nonexistent"
       /\ outcome.type = "False"
       /\ active_traits # {}

----------------------------------------------------------------------------
\* TraitSystem on its own: a host applies traits to one player and calls
\* update_effects once per turn (tests/unit/test_traits.py)

EffectsApply(trait_id) ==
    /\ calls < MaxEffectCalls
    /\ calls' = calls + 1
    /\ op' = "apply_trait_effects"
    /\ ApplyTraitBody(trait_id)
    /\ UNCHANGED <<mutationVars, rsVars, parserVars, gamesVars>>

EffectsUpdate ==
    /\ calls < MaxEffectCalls
    /\ calls' = calls + 1
    /\ op' = "update_effects"
    /\ UpdateEffectsBody
    /\ UNCHANGED <<mutationVars, rsVars, parserVars, gamesVars>>

NextEffects ==
    \/ \E trait_id \in HostTraitIds : EffectsApply(trait_id)
    \/ EffectsUpdate

SpecEffects == Init /\ [][NextEffects]_vars

\* the temporary effects being tracked, as <<trait id, index>> pairs
TrackedNow ==
    {<<t, i>> \in (DOMAIN active_effects) \X (1..MaxEffectCalls) :
        i <= Len(active_effects[t])}

\* C21: a tracked temporary effect has between 1 and duration calls of
\* update_effects left, and until the call that removes it it is in force: a
\* tracked speed effect means the player's speed is the effect's value.
C21_TemporaryEffectInForce ==
    \A x \in TrackedNow :
        LET e == active_effects[x[1]][x[2]]
        IN  /\ e.remaining \in 1..e.duration
            /\ e.type = "speed" => speed = e.value

----------------------------------------------------------------------------
\* Two SimulacraGame objects constructed by one host (main.py 57-78), each
\* driven through run() and _trigger_disaster in any interleaving

GameIds == {1, 2}

\* self.disaster_system = DisasterSystem(): the object game i constructs
OwnDisasterSystem_Shared(i) == 1
OwnDisasterSystem(i) == i

\* SimulacraGame.__init__ with the mutation system ms passed by the host; the
\* fields of the Player it constructs are kept with the game's
NewGame(i, ms) ==
    [pc |-> "ready", is_running |-> FALSE, game_over |-> FALSE,
     survival_seconds |-> 0, entropy_drain |-> 0, regen_tick |-> 0,
     disaster_count |-> 0, recent_disasters |-> <<>>,
     health |-> BASE_HP, mutation_rate |-> 0, resistances |-> EmptyMap,
     disaster_system |-> OwnDisasterSystem(i), mutation_system |-> ms]

\* MutationSystem() after the _add_test_mutations of the games built on it
NewMutationSystem ==
    [mutations |-> InitialMutations, active_mutations |-> DOMAIN InitialMutations]

\* the host passes one MutationSystem to both games, or one to each
HostMutationSystems == {[i \in GameIds |-> 1], [i \in GameIds |-> i]}

InitGames ==
    /\ InitGame
    /\ InitPlayer
    /\ InitSystems
    /\ InitIdle
    /\ InitParser
    /\ \E ms \in HostMutationSystems :
          /\ games = [i \in GameIds |-> NewGame(i, ms[i])]
          /\ mutation_systems = [r \in {ms[i] : i \in GameIds} |-> NewMutationSystem]
    /\ disaster_systems = [r \in {OwnDisasterSystem(i) : i \in GameIds} |-> EmptyMap]
    /\ driven = 0
    /\ op = "init"
    /\ calls = 0

\* the regen step of _handle_mutations is due and its lookup raises
RegenRaises(g, ms) ==
    /\ g.regen_tick + 1 >= REGEN_INTERVAL
    /\ MutationLookupFails(ms.mutations, ms.active_mutations)

\* the regen step is due and heals
RegenHeals(g, ms) == g.regen_tick + 1 >= REGEN_INTERVAL /\ ~RegenRaises(g, ms)

\* the loop body of run() on game g, reading the mutation system ms
TickOf(g, ms) ==
    LET s == g.survival_seconds + 1
        h1 == HealthAfterEntropy(g.health, s)
    IN  [g EXCEPT !.survival_seconds = s,
                  !.entropy_drain = IF s > grace_period THEN EntropyDrainAt(s) ELSE @,
                  !.health = IF RegenHeals(g, ms)
                             THEN HealthAfterRegen(h1, ms.mutations, ms.active_mutations)
                             ELSE h1,
                  !.regen_tick = IF RegenHeals(g, ms) THEN 0 ELSE @ + 1,
                  !.is_running = IF RegenRaises(g, ms) THEN FALSE ELSE @,
                  !.pc = IF RegenRaises(g, ms) THEN "exited" ELSE @]

\* the loop's first statement when health <= 0
GameOverOf(g) == [g EXCEPT !.game_over = TRUE, !.pc = "exited"]

\* _trigger_disaster on game g when disaster d is returned
AfterDisaster(g, d, mutates) ==
    LET scaled == get_scaled_damage(d, g.survival_seconds, g.disaster_count)
        final == calculate_disaster_damage(g.resistances, Disasters[d].type, scaled)
    IN  [g EXCEPT !.health = Max2(0, @ - final),
                  !.recent_disasters =
                      update_disaster_history(@, d, final, g.survival_seconds),
                  !.mutation_rate = IF mutates THEN Min2(MAX_MUTATION_RATE, @ + 1000)
                                    ELSE @,
                  !.disaster_count = @ + 1]

\* a step of the host on game i that leaves the single game of Spec alone
DrivesGame(i, name) ==
    /\ driven' = i
    /\ op' = name
    /\ UNCHANGED <<objectVars, rsVars, parserVars, calls>>

\* games[i].run() up to the loop
GameStart(i) ==
    /\ games[i].pc # "loop"
    /\ games' = [games EXCEPT ![i].is_running = TRUE, ![i].pc = "loop"]
    /\ DrivesGame(i, "run")
    /\ UNCHANGED <<disaster_systems, mutation_systems>>

\* one iteration of the loop of games[i].run()
GameRunIteration(i) ==
    /\ games[i].pc = "loop"
    /\ games[i].is_running
    /\ games[i].survival_seconds < MaxGameSeconds
    /\ games' = [games EXCEPT ![i] =
                    IF @.health <= 0 THEN GameOverOf(@)
                    ELSE TickOf(@, mutation_systems[@.mutation_system])]
    /\ DrivesGame(i, "tick")
    /\ UNCHANGED <<disaster_systems, mutation_systems>>

\* games[i]._trigger_disaster(), the draw returning d ("none" for None)
GameTriggerDisaster(i, d, mutates) ==
    LET g == games[i]
        lo == disaster_systems[g.disaster_system]
    IN  /\ g.pc # "loop"
        /\ g.disaster_count < MaxGameTriggers
        /\ IF available_disasters(lo, g.survival_seconds) = {}
           THEN /\ d = "none"
                /\ ~mutates
                /\ UNCHANGED <<games, disaster_systems>>
           ELSE /\ d \in available_disasters(lo, g.survival_seconds)
                /\ disaster_systems' =
                      [disaster_systems EXCEPT ![g.disaster_system] =
                          RecordOccurrence(lo, d, g.survival_seconds)]
                /\ games' = [games EXCEPT ![i] = AfterDisaster(g, d, mutates)]
        /\ DrivesGame(i, "trigger_disaster")
        /\ UNCHANGED mutation_systems

NextGames ==
    \/ \E i \in GameIds : GameStart(i)
    \/ \E i \in GameIds : GameRunIteration(i)
    \/ \E i \in GameIds, d \in DisasterIds \cup {"none"}, mutates \in BOOLEAN :
          GameTriggerDisaster(i, d, mutates)

SpecGames == InitGames /\ [][NextGames]_vars

\* what belongs to game j: its fields and its player's, the cooldown history
\* of its disaster system, and the mutations of its mutation system
RunState(j) ==
    <<games[j], disaster_systems[games[j].disaster_system],
      mutation_systems[games[j].mutation_system]>>

\* C20: a step of one game (the start of its run, a tick, a triggered
\* disaster) leaves the other game's survival time, health, disaster count,
\* disaster history, cooldown history and mutation set as they were.
C20_OtherRunUntouched ==
    [][\A j \in GameIds \ {driven'} : RunState(j)' = RunState(j)]_vars

\* game 2 has taken a disaster, game 1 has then ticked through a regen step,
\* and the two games were given the same mutation system
C20_Witness ==
    /\ driven = 1
    /\ op = "tick"
    /\ games[1].survival_seconds >= REGEN_INTERVAL
    /\ games[2].disaster_count > 0
    /\ games[2].health < BASE_HP
    /\ games[1].mutation_system = games[2].mutation_system

\* C22: every tick of a running game invokes the disaster selector on the
\* current time: after the tick, the argument of the last
\* trigger_random_disaster call is the tick's survival_seconds.
C22_TickInvokesSelector ==
    [][op' = "tick" => current_time' = survival_seconds']_vars

\* C23: a tick whose survival_seconds is within the grace period skips the
\* entropy drain: it leaves the player's health and the recorded
\* entropy_drain as they were.
C23_GraceTickSkipsDrain ==
    [][(op' = "tick" /\ survival_seconds' <= grace_period) =>
           /\ health' = health
           /\ entropy_drain' = entropy_drain]_vars

\* the last tick of the grace period, on a player a disaster has hurt
C23_Witness ==
    /\ op = "tick"
    /\ survival_seconds = grace_period
    /\ disaster_count > 0
    /\ health > 0
    /\ health < BASE_HP

----------------------------------------------------------------------------
\* The entropy step over a long game: run() entered on a game that has
\* already survived for some seconds (run() continues survival_seconds when
\* it is called again, and the host can raise the player's health in between)

\* the seconds already survived: none, and around the second at which
\* BASE_ENTROPY_DRAIN + (s - grace_period) * ENTROPY_ACCELERATION passes
\* MAX_ENTROPY_DRAIN
EntropyStarts == {0, 460, 470, 480}

InitEntropy ==
    /\ pc = "ready"
    /\ is_running = FALSE
    /\ game_over = FALSE
    /\ survival_seconds \in EntropyStarts
    /\ entropy_drain = IF survival_seconds > grace_period
                       THEN EntropyDrainAt(survival_seconds) ELSE 0
    /\ regen_tick = survival_seconds % REGEN_INTERVAL
    /\ disaster_count = 0
    /\ recent_disasters = <<>>
    /\ disaster = NoDisaster
    /\ InitPlayer
    /\ InitSystems
    /\ InitIdle
    /\ InitParser
    /\ InitOneGame
    /\ op = "init"
    /\ calls = 0

NextEntropy ==
    \/ StartRun
    \/ RunIteration

SpecEntropy == InitEntropy /\ [][NextEntropy]_vars

\* C24: after the grace period a tick records the drain
\* min(MAX_ENTROPY_DRAIN, BASE_ENTROPY_DRAIN + (survival_seconds -
\* grace_period) * ENTROPY_ACCELERATION), which is at most MAX_ENTROPY_DRAIN
\* and not less than the drain of the tick before.
C24_DrainFormulaCappedMonotone ==
    [][(op' = "tick" /\ survival_seconds' > grace_period) =>
           /\ \/ /\ entropy_drain' = MAX_ENTROPY_DRAIN
                 /\ BASE_ENTROPY_DRAIN +
                      (survival_seconds' - grace_period) * ENTROPY_ACCELERATION
                      >= MAX_ENTROPY_DRAIN
              \/ /\ entropy_drain' = BASE_ENTROPY_DRAIN +
                      (survival_seconds' - grace_period) * ENTROPY_ACCELERATION
                 /\ entropy_drain' <= MAX_ENTROPY_DRAIN
           /\ entropy_drain' <= MAX_ENTROPY_DRAIN
           /\ entropy_drain' >= entropy_drain]_vars

\* a tick at which the uncapped drain is above MAX_ENTROPY_DRAIN
C24_Witness ==
    /\ op = "tick"
    /\ entropy_drain = MAX_ENTROPY_DRAIN
    /\ BASE_ENTROPY_DRAIN + (survival_seconds - grace_period) * ENTROPY_ACCELERATION
          > MAX_ENTROPY_DRAIN

\* actual_drain of run_simulacra: the drain discounted by entropy_reduction
DiscountedDrain(st) == (BASE_ENTROPY_DRAIN * (100 - st.entropy_reduction)) \div 100

----------------------------------------------------------------------------
\* The regen step: a host changes the mutations of the game's MutationSystem
\* and then lets the game run

NextRegen ==
    \/ \E id \in AddedIds, power \in AddedPowers, active \in BOOLEAN :
          AddMutation(Mutation(id, power, active))
    \/ \E id \in LookupIds : RemoveMutation(id)
    \/ \E id \in LookupIds : ActivateMutation(id)
    \/ \E id \in LookupIds : DeactivateMutation(id)
    \/ StartRun
    \/ RunIteration

SpecRegen == Init /\ [][NextRegen]_vars

\* a regen mutation is stored and its active flag is true
ActiveRegenStored == "regen" \in DOMAIN mutations /\ mutations["regen"].active

\* C26: a tick heals by mutation.power * BASE_REGEN_AMOUNT exactly when its
\* number is a multiple of REGEN_INTERVAL and a regen mutation with active =
\* true is stored; on every other tick, and whenever the stored regen
\* mutation is inactive or missing, health is what the entropy step left.
C26_RegenOnlyWhenActive ==
    [][op' = "tick" =>
          health' = IF survival_seconds' % REGEN_INTERVAL = 0 /\ ActiveRegenStored
                    THEN Max2(0, Min2(max_health,
                              HealthAfterEntropy(health, survival_seconds') +
                              (mutations["regen"].power * BASE_REGEN_AMOUNT) \div 1000))
                    ELSE HealthAfterEntropy(health, survival_seconds')]_vars

\* C30: every id in active_mutations is a key of mutations, and an id is in
\* active_mutations exactly when its stored mutation has active = true.
C30_ActiveSetMatchesFlags ==
    /\ active_mutations \subseteq DOMAIN mutations
    /\ \A id \in DOMAIN mutations : (id \in active_mutations) <=> mutations[id].active

\* damage * (1 + max(0, 30 - time) * 0.02) * (1 + time / 180) * (1 + count *
\* 0.15) in thousandths, times 1800 (the damages of the catalog are whole)
ScaledTimes1800(d, time, count) ==
    (Disasters[d].damage \div 1000)
        * (100 + 2 * (IF time < 30 THEN 30 - time ELSE 0))
        * (180 + time) * (100 + 15 * count)

\* C27: the scaled damage is damage * (1 + max(0, 30 - time) * 0.02) *
\* (1 + time / 180) * (1 + count * 0.15), to within the rounding of the
\* thousandths kept at each of the three products; it is strictly greater
\* with one more disaster counted; and damage 20 at time 60 with count 0
\* gives 26.67.
C27_ScaledDamageFormula ==
    /\ op = "calculate_disaster_damage" =>
          /\ disaster.scaled * 1800
                <= ScaledTimes1800(disaster.id, survival_seconds, disaster_count)
          /\ (disaster.scaled + 5) * 1800
                > ScaledTimes1800(disaster.id, survival_seconds, disaster_count)
          /\ get_scaled_damage(disaster.id, survival_seconds, disaster_count + 1)
                > disaster.scaled
    /\ (get_scaled_damage("radiation_burst", 60, 0) + 5) \div 10 = 2667

\* a disaster scaled by the early-game bonus and by earlier disasters
C27_Witness ==
    /\ op = "calculate_disaster_damage"
    /\ survival_seconds > 0
    /\ survival_seconds < 30
    /\ disaster_count > 0
    /\ disaster.scaled > Disasters[disaster.id].damage

----------------------------------------------------------------------------
\* DisasterSystem called often enough for every disaster to be in its
\* cooldown: each call at the time of the call before or one acid_rain
\* cooldown later

SelectorTimes == {current_time, current_time + Disasters["acid_rain"].cooldown}

SelectorCall(t, d) == calls < MaxSelectorCalls /\ TriggerCallBody(t, d)

NextSelector ==
    \E t \in SelectorTimes, d \in DisasterIds \cup {"none"} : SelectorCall(t, d)

SpecSelector == Init /\ [][NextSelector]_vars

\* C28: a call of trigger_random_disaster that returns a disaster sets the
\* last occurrence of that disaster's id to current_time and changes no other
\* entry; when no disaster is eligible it returns none; a call that returns
\* none leaves the map as it was.
C28_OnlyReturnedIdRecorded ==
    [][op' = "trigger_random_disaster" /\ calls' = calls + 1 =>
          /\ available_disasters(last_occurrence, current_time') = {}
                => disaster'.id = "none"
          /\ disaster'.id = "none" => last_occurrence' = last_occurrence
          /\ disaster'.id # "none" =>
                /\ disaster'.id \in available_disasters(last_occurrence, current_time')
                /\ DOMAIN last_occurrence' = (DOMAIN last_occurrence) \cup {disaster'.id}
                /\ last_occurrence'[disaster'.id] = current_time'
                /\ \A x \in (DOMAIN last_occurrence) \ {disaster'.id} :
                      last_occurrence'[x] = last_occurrence[x]]_vars

\* a call that found all four disasters in their cooldown and returned none
C28_Witness ==
    /\ op = "trigger_random_disaster"
    /\ disaster.id = "none"
    /\ DOMAIN last_occurrence = DisasterIds
    /\ available_disasters(last_occurrence, current_time) = {}

\* C29: disaster_count counts the disasters fired: a _trigger_disaster call
\* that fires one scales it with the count before the call and then adds
\* one; a call that fires none, and every other step, leaves the count.
C29_CountIsDisastersFired ==
    [][/\ (op' = "trigger_disaster" /\ calls' = calls + 1 /\ disaster'.id # "none") =>
             /\ disaster'.scaled =
                    get_scaled_damage(disaster'.id, survival_seconds, disaster_count)
             /\ disaster_count' = disaster_count + 1
       /\ (op' = "trigger_disaster" /\ calls' = calls + 1 /\ disaster'.id = "none") =>
             disaster_count' = disaster_count
       /\ op' # "trigger_disaster" => disaster_count' = disaster_count]_vars

\* the third disaster of a game, scaled with count 2
C29_Witness ==
    /\ op = "trigger_disaster"
    /\ disaster.id # "none"
    /\ disaster_count = 3
    /\ disaster.scaled = get_scaled_damage(disaster.id, survival_seconds, 2)

====
